---- MODULE Spec2Model ----
(***************************************************************************)
(* Model of the Modbus RTU configuration tool: the discovery scan          *)
(* (AutoSearchWorker), the heartbeat monitor (ConnectionMonitor), the USB   *)
(* monitor (USBMonitor), the connection / configuration steps of the wizard *)
(* that start and stop them, the register and identification transactions  *)
(* (ModbusRegisters, ModbusDeviceInfo), the frame codec, the identity       *)
(* decoder (parse_specific_device_response), the two configuration writers *)
(* (ConfigWriteWorker, ConfigManager) and the connection handle with its    *)
(* client (ModbusConnection, ModbusRTUClient).                              *)
(***************************************************************************)
EXTENDS Integers, Sequences, FiniteSets, TLC

\* ------------------------------------------------------------------------
\* Discovery scan: src/auto_search_worker.py
\* ------------------------------------------------------------------------

MIN_ADDRESS == 1

MAX_ADDRESS == 200

SEARCH_BAUDRATES_Ascending == <<9600, 19200, 38400, 57600, 115200>>

SEARCH_BAUDRATES == <<115200, 57600, 38400, 19200, 9600>>

NoDevice == <<0, 0>>

\* Simulated responders: the (address, speed) pair at which the device on
\* the link answers, or NoDevice when nothing answers.
Devices == {NoDevice, <<1, 115200>>, <<2, 9600>>, <<7, 38400>>, <<200, 9600>>}

\* Outcome of constructing ModbusScannerRust: the native scanner loads, is
\* missing (ImportError, _scanner stays None) or its constructor raises.
ScannerLoads == {"ok", "missing", "raise"}

NoInfo == <<"None">>

VARIABLES
    scanPc,              \* position of AutoSearchWorker.run
    address,             \* loop variable of the outer for
    baudIdx,             \* index into SEARCH_BAUDRATES of the inner for
    search_should_stop,  \* AutoSearchWorker.should_stop
    scannerLoad,         \* environment: result of loading the scanner
    scanFault,           \* environment: where the native scanner call raises
    device,              \* environment: where the device answers
    infoReply,           \* environment: outcome of the follow-up read
    probeCount,          \* number of scan_single calls issued
    lastProbe,           \* (address, speed) of the latest scan_single call
    probeResult,         \* result of the latest scan_single call
    scanLog,             \* history of the run, see ScanLog0
    outcome,             \* search_complete report of the run
    found_device         \* payload of device_found

scanVars == <<scanPc, address, baudIdx, search_should_stop, scannerLoad, scanFault, device,
              infoReply, probeCount, lastProbe, probeResult, scanLog, outcome,
              found_device>>

VARIABLES
    mon,            \* the ConnectionMonitor threads
    wt              \* the ModbusWorkerThread polled by the monitors and used by the workers

monVars == <<mon, wt>>

VARIABLES
    gui,            \* fields of ConnectionWizard, StepConnect and StepConfig, pending timers and signals
    cfg             \* the ConfigReadWorker / ConfigWriteWorker thread

wizVars == <<gui, cfg>>

VARIABLES
    usb,            \* the USBMonitor threads, one beside each ConnectionMonitor
    host,           \* environment: the serial device nodes present, and whether pyudev is installed
    sigq            \* signals of the monitor threads queued for the GUI thread, oldest first

liveVars == <<usb, host, sigq>>

VARIABLES
    call            \* one call of an operation of ModbusRegisters or ModbusDeviceInfo

txVars == <<call>>

VARIABLES
    codec           \* one application of a function of the frame codec or the identity decoder

codecVars == <<codec>>

VARIABLES
    conn            \* one ModbusRTUClient with its ModbusConnection and the link behind it

connVars == <<conn>>

vars == <<scanVars, monVars, wizVars, liveVars, txVars, codecVars, connVars>>

NoClientCall == [op |-> "none", result |-> "none", wrote |-> FALSE, after |-> FALSE]

\* requested: the speed given to the client (0: None).  disconnected:
\* disconnect has returned.  writes, closes, idleCloses,
\* closeRaised and last are history: requests written to the link, close()
\* calls, close() calls of a disconnect that followed another, whether a
\* close() raised, and the last client operation (after: it was called after
\* a disconnect).
NoConnection ==
    [pc |-> "idle", ports |-> <<>>, device_speed |-> 0, requested |-> 0,
     success |-> FALSE,
     handle |-> "None", baudrate |-> 0, tried |-> <<>>, probes |-> <<>>,
     disconnected |-> FALSE, disconnects |-> 0, calls |-> 0, writes |-> 0,
     closes |-> 0, idleCloses |-> 0, closeRaised |-> FALSE, last |-> NoClientCall]

InitConnectionIdle == conn = NoConnection

NoCodec == [op |-> "idle", input |-> <<>>, sent |-> <<>>, out |-> <<>>]

InitCodecIdle == codec = NoCodec

\* History of one run: the probe that succeeded, what happened after it and
\* after a stop request, the reports emitted, the progress messages emitted
\* (addressReports: the message of line 102; probeReports: messages about a
\* single probe; runReports: the others), who holds the serial link,
\* whether the GUI has handled search_complete, and whether stop_search has
\* returned.
ScanLog0 == [successAt |-> NoDevice, probesAfterSuccess |-> 0, infoTx |-> <<>>,
             infoResult |-> NoInfo, stopAt |-> "none", txAfterStop |-> 0,
             completeCount |-> 0, errorCount |-> 0, foundCount |-> 0,
             addressReports |-> 0, probeReports |-> 0, runReports |-> 0,
             link |-> "closed",
             handled |-> FALSE, stopped |-> FALSE]

\* Combinations at which the call into the native scanner raises, none for
\* NoDevice; no device answers at any of them.
Faults == {NoDevice, <<1, 57600>>, <<3, 9600>>, <<200, 9600>>}

Raised == <<"raise">>

\* The native scanner for one (address, speed): it opens the port, sends the
\* probe and closes the port; a result object carrying the raw response when
\* the device answers there, None otherwise, or an error.
RustScanSingle(a, b) ==
    IF scanFault = <<a, b>> THEN Raised
    ELSE IF device = <<a, b>> THEN <<"response", a, b>>
    ELSE NoInfo

\* The native scanner holds the port for the time of one probe.
ScannerOpens(log) == [log EXCEPT !.link = "scanner"]

ScannerCloses(log) == [log EXCEPT !.link = "closed"]

\* The wrapper without its except clause.
ScanSingle_Propagates(a, b) == RustScanSingle(a, b)

\* ModbusScannerRust.scan_single: the result of the native call, None when
\* it raises.
ScanSingle(a, b) ==
    IF RustScanSingle(a, b) = Raised THEN NoInfo ELSE RustScanSingle(a, b)

\* The status callback forwarding to search_progress.
StatusCallback_Forwards(log) == [log EXCEPT !.probeReports = @ + 1]

\* status_callback=lambda s: None (line 114): what the wrapper reports about
\* a probe is dropped.
StatusCallback(log) == log

\* The dictionary sent with device_found (lines 126-130).
FoundDevice_FirstAddress(a, b, info) == [address |-> MIN_ADDRESS, baudrate |-> b, device_info |-> info]

FoundDevice(a, b, info) == [address |-> a, baudrate |-> b, device_info |-> info]

NoFound == [address |-> 0, baudrate |-> 0, device_info |-> NoInfo]

\* _read_device_info with the client left connected when the device does
\* not answer command 17.
ClientAfterDeviceInfo_OpenOnNone(raw_info) ==
    IF raw_info = NoInfo THEN "client" ELSE "closed"

\* _read_device_info after get_device_info: client.disconnect() on both
\* branches (lines 172 and 175).
ClientAfterDeviceInfo(raw_info) == "closed"

\* search_complete.emit(...) followed by return.
SearchComplete_SilentCancel(log, o) ==
    /\ outcome' = o
    /\ scanPc' = "done"
    /\ scanLog' = [log EXCEPT !.completeCount = IF o = "Cancelled" THEN @ ELSE @ + 1,
                              !.errorCount = IF o \in {"Unavailable", "Error"} THEN @ + 1 ELSE @]

SearchComplete(log, o) ==
    /\ outcome' = o
    /\ scanPc' = "done"
    /\ scanLog' = [log EXCEPT !.completeCount = @ + 1,
                              !.errorCount = IF o \in {"Unavailable", "Error"} THEN @ + 1 ELSE @]

InitScan ==
    /\ scanPc = "idle"
    /\ address = 0
    /\ baudIdx = 0
    /\ search_should_stop = FALSE
    /\ scannerLoad \in ScannerLoads
    /\ scanFault \in Faults
    /\ device \in Devices
    /\ infoReply \in {"connect_failed", "no_reply", "reply"}
    /\ probeCount = 0
    /\ lastProbe = NoDevice
    /\ probeResult = NoInfo
    /\ scanLog = ScanLog0
    /\ outcome = "none"
    /\ found_device = NoFound

\* StepConnect.connect -> _start_auto_search: is_connecting is set and the
\* worker thread is started.
StartAutoSearch ==
    /\ scanPc = "idle"
    /\ scanPc' = "init"
    /\ gui' = [gui EXCEPT !.is_connecting = TRUE]
    /\ UNCHANGED <<address, baudIdx, search_should_stop, scannerLoad, scanFault, device, infoReply,
                   probeCount, lastProbe, probeResult, scanLog, outcome, found_device>>
    /\ UNCHANGED <<monVars, cfg, liveVars, txVars, codecVars, connVars>>

\* AutoSearchWorker.run up to the call of _sequential_search: a progress
\* message, the scanner is loaded, a second progress message.
ScanRun ==
    /\ scanPc = "init"
    /\ IF scannerLoad = "raise"
         THEN /\ SearchComplete([scanLog EXCEPT !.runReports = @ + 1], "Error")
              /\ UNCHANGED address
         ELSE IF scannerLoad = "missing"
           THEN /\ SearchComplete([scanLog EXCEPT !.runReports = @ + 1], "Unavailable")
                /\ UNCHANGED address
           ELSE /\ scanPc' = "addr"
                /\ address' = MIN_ADDRESS
                /\ scanLog' = [scanLog EXCEPT !.runReports = @ + 2]
                /\ UNCHANGED outcome
    /\ UNCHANGED <<baudIdx, search_should_stop, scannerLoad, scanFault, device, infoReply,
                   probeCount, lastProbe, probeResult, found_device>>
    /\ UNCHANGED <<monVars, wizVars, liveVars, txVars, codecVars, connVars>>

\* Head of the outer loop: range exhausted, stop check, progress report.
ScanNextAddress ==
    /\ scanPc = "addr"
    /\ IF address > MAX_ADDRESS
         THEN SearchComplete(scanLog, "Exhausted") /\ UNCHANGED baudIdx
         ELSE IF search_should_stop
           THEN SearchComplete(scanLog, "Cancelled") /\ UNCHANGED baudIdx
           ELSE /\ scanPc' = "baud"
                /\ baudIdx' = 1
                /\ scanLog' = [scanLog EXCEPT !.addressReports = @ + 1]
                /\ UNCHANGED outcome
    /\ UNCHANGED <<address, search_should_stop, scannerLoad, scanFault, device, infoReply,
                   probeCount, lastProbe, probeResult, found_device>>
    /\ UNCHANGED <<monVars, wizVars, liveVars, txVars, codecVars, connVars>>

\* Head of the inner loop: speeds exhausted, stop check, scan_single issued.
ScanNextBaudrate ==
    /\ scanPc = "baud"
    /\ IF baudIdx > Len(SEARCH_BAUDRATES)
         THEN /\ scanPc' = "addr"
              /\ address' = address + 1
              /\ UNCHANGED <<outcome, scanLog, probeCount, lastProbe>>
         ELSE IF search_should_stop
           THEN /\ SearchComplete(scanLog, "Cancelled")
                /\ UNCHANGED <<address, probeCount, lastProbe>>
           ELSE /\ scanPc' = "probing"
                /\ probeCount' = probeCount + 1
                /\ lastProbe' = <<address, SEARCH_BAUDRATES[baudIdx]>>
                /\ scanLog' = ScannerOpens([scanLog EXCEPT
                       !.probesAfterSuccess = IF scanLog.successAt # NoDevice THEN @ + 1 ELSE @,
                       !.txAfterStop = IF search_should_stop THEN @ + 1 ELSE @])
                /\ UNCHANGED <<outcome, address>>
    /\ UNCHANGED <<baudIdx, search_should_stop, scannerLoad, scanFault, device, infoReply,
                   probeResult, found_device>>
    /\ UNCHANGED <<monVars, wizVars, liveVars, txVars, codecVars, connVars>>

\* scan_single returns and the scanner has closed the port.  An error that
\* leaves scan_single ends _sequential_search in the except clause of run.
\* No result: next speed.  A result: a progress message, then
\* _read_device_info creates a client and connects; a failed connect reports
\* the device with device_info None, a successful one sends command 17 on the
\* link.
ScanProbeReturns ==
    /\ scanPc = "probing"
    /\ probeResult' = ScanSingle(address, SEARCH_BAUDRATES[baudIdx])
    /\ LET closed == ScannerCloses(scanLog)
           log == IF RustScanSingle(address, SEARCH_BAUDRATES[baudIdx]) = Raised
                    THEN StatusCallback(closed) ELSE closed
       IN IF probeResult' = Raised
            THEN /\ SearchComplete(closed, "Error")
                 /\ UNCHANGED <<found_device, baudIdx>>
            ELSE IF probeResult' = NoInfo
            THEN /\ scanPc' = "baud"
                 /\ baudIdx' = baudIdx + 1
                 /\ scanLog' = log
                 /\ UNCHANGED <<outcome, found_device>>
            ELSE IF infoReply = "connect_failed"
              THEN /\ found_device' = FoundDevice(address, SEARCH_BAUDRATES[baudIdx], NoInfo)
                   /\ outcome' = "Found"
                   /\ scanPc' = "done"
                   /\ scanLog' = [log EXCEPT
                          !.successAt = <<address, SEARCH_BAUDRATES[baudIdx]>>,
                          !.runReports = @ + 1,
                          !.foundCount = @ + 1, !.completeCount = @ + 1]
                   /\ UNCHANGED baudIdx
              ELSE /\ scanPc' = "info"
                   /\ scanLog' = [log EXCEPT
                          !.successAt = <<address, SEARCH_BAUDRATES[baudIdx]>>,
                          !.runReports = @ + 1,
                          !.infoTx = Append(@, <<address, SEARCH_BAUDRATES[baudIdx]>>),
                          !.txAfterStop = IF search_should_stop THEN @ + 1 ELSE @,
                          !.link = "client"]
                   /\ UNCHANGED <<outcome, found_device, baudIdx>>
    /\ UNCHANGED <<address, search_should_stop, scannerLoad, scanFault, device, infoReply,
                   probeCount, lastProbe>>
    /\ UNCHANGED <<monVars, wizVars, liveVars, txVars, codecVars, connVars>>

\* The follow-up command 17 returns and the client is disconnected;
\* device_found and search_complete(True).
ScanInfoReturns ==
    /\ scanPc = "info"
    /\ LET info == IF infoReply = "reply"
                     THEN <<"device_info", address, SEARCH_BAUDRATES[baudIdx]>>
                     ELSE NoInfo
       IN /\ found_device' = FoundDevice(address, SEARCH_BAUDRATES[baudIdx], info)
          /\ outcome' = "Found"
          /\ scanPc' = "done"
          /\ scanLog' = [scanLog EXCEPT !.infoResult = info,
                                        !.link = ClientAfterDeviceInfo(info),
                                        !.foundCount = @ + 1, !.completeCount = @ + 1]
    /\ UNCHANGED <<address, baudIdx, search_should_stop, scannerLoad, scanFault, device, infoReply,
                   probeCount, lastProbe, probeResult>>
    /\ UNCHANGED <<monVars, wizVars, liveVars, txVars, codecVars, connVars>>

\* AutoSearchWorker.stop, called from the GUI thread while the worker exists
\* (StepConnect.stop_search up to its wait).
SearchStop ==
    /\ scanPc \notin {"idle", "done"}
    /\ ~search_should_stop
    /\ search_should_stop' = TRUE
    /\ scanLog' = [scanLog EXCEPT !.stopAt = scanPc]
    /\ UNCHANGED <<scanPc, address, baudIdx, scannerLoad, scanFault, device, infoReply,
                   probeCount, lastProbe, probeResult, outcome, found_device>>
    /\ UNCHANGED <<monVars, wizVars, liveVars, txVars, codecVars, connVars>>

\* StepConnect.stop_search from wait() on: the GUI thread has waited for
\* the worker thread to finish and forgets the worker.
StopSearchReturns ==
    /\ search_should_stop
    /\ scanPc = "done"
    /\ ~scanLog.stopped
    /\ scanLog' = [scanLog EXCEPT !.stopped = TRUE]
    /\ gui' = [gui EXCEPT !.is_connecting = FALSE]
    /\ UNCHANGED <<scanPc, address, baudIdx, search_should_stop, scannerLoad, scanFault, device,
                   infoReply, probeCount, lastProbe, probeResult, outcome, found_device>>
    /\ UNCHANGED <<monVars, cfg, liveVars, txVars, codecVars, connVars>>

\* The worker object is destroyed once stop_search has dropped its last
\* reference; whether the report it queued before is still delivered to
\* the GUI thread is left to the Qt binding.  Here it is not.
QueuedReportDiscarded ==
    /\ scanLog.stopped
    /\ scanLog.completeCount > 0
    /\ ~scanLog.handled
    /\ scanLog' = [scanLog EXCEPT !.handled = TRUE]
    /\ UNCHANGED <<scanPc, address, baudIdx, search_should_stop, scannerLoad, scanFault, device,
                   infoReply, probeCount, lastProbe, probeResult, outcome, found_device>>
    /\ UNCHANGED <<monVars, wizVars, liveVars, txVars, codecVars, connVars>>

\* The handler connecting whatever the search reports.
ConnectsAfterSearch_Always(success) == TRUE

\* if success (line 287): _connect_to_device is called for a found device
\* only.
ConnectsAfterSearch(success) == success

\* StepConnect._on_search_complete, the slot of search_complete:
\* is_connecting is cleared; after a success _connect_to_device creates the
\* worker thread, starts it and starts the 5-second timer, otherwise the
\* controls are reset.  The slot runs in the GUI thread, so not while
\* stop_search waits there.
OnSearchComplete ==
    /\ scanPc = "done"
    /\ scanLog.completeCount > 0
    /\ ~scanLog.handled
    /\ search_should_stop => scanLog.stopped
    /\ scanLog' = [scanLog EXCEPT !.handled = TRUE]
    /\ IF ConnectsAfterSearch(outcome = "Found")
         THEN /\ wt' = [exists |-> TRUE, is_connected |-> FALSE, pc |-> "starting"]
              /\ gui' = [gui EXCEPT !.is_connecting = FALSE, !.worker_thread = TRUE,
                                    !.connectTimers = @ + 1]
         ELSE /\ gui' = [gui EXCEPT !.is_connecting = FALSE]
              /\ UNCHANGED wt
    /\ UNCHANGED <<scanPc, address, baudIdx, search_should_stop, scannerLoad, scanFault, device,
                   infoReply, probeCount, lastProbe, probeResult, outcome, found_device>>
    /\ UNCHANGED <<mon, cfg, liveVars, txVars, codecVars, connVars>>

ScanThread == ScanRun \/ ScanNextAddress \/ ScanNextBaudrate \/ ScanProbeReturns \/ ScanInfoReturns

\* ------------------------------------------------------------------------
\* Heartbeat monitor: src/wizard/connection_monitor.py
\* ------------------------------------------------------------------------

\* Number of ConnectionMonitor threads created in one behaviour.
MaxMonitors == 2

\* Longest run of consecutive failed checks that is explored.
MaxStreak == 4

\* Signals of the monitor threads that may wait undelivered in the event
\* queue of the GUI thread, and udev events that may wait unread.
MaxQueued == 2

Monitors == 1..MaxMonitors


\* max_failures as set by ConnectionMonitor.__init__ (line 36).
MaxFailures(fast_mode) == IF fast_mode THEN 2 ELSE 3

NoMonitor == [pc |-> "unused", should_stop |-> FALSE, is_connected |-> TRUE,
              consecutive_failures |-> 0, max_failures |-> 0, fast_mode |-> FALSE,
              failStreak |-> 0, lostInStreak |-> 0, reconnects |-> 0]

\* ConnectionMonitor.__init__ followed by start(): run begins with the
\* counter at zero.  failStreak, lostInStreak and reconnects are history:
\* failed checks since the start or the last success, Lost transitions
\* emitted in that streak, Reconnected transitions emitted by the last check.
NewMonitor(fast_mode) ==
    [pc |-> "loop", should_stop |-> FALSE, is_connected |-> TRUE,
     consecutive_failures |-> 0, max_failures |-> MaxFailures(fast_mode),
     fast_mode |-> fast_mode, failStreak |-> 0, lostInStreak |-> 0, reconnects |-> 0]

\* Outcomes of worker_thread.read_device_info as seen by the monitor.
ProbeReplies == {"info", "none", "raise"}

NoWorker == [exists |-> FALSE, is_connected |-> FALSE, pc |-> "none"]

\* A queued signal: its name and the device node it carries (device_removed
\* only).
Signal(name, path) == [sig |-> name, path |-> path]

\* The signals one check emits, from the monitor before and after it:
\* device_disconnected when a Lost transition was added to the streak,
\* device_reconnected when the check reconnected.
MonitorEmits(old, new) ==
    (IF new.lostInStreak > old.lostInStreak
       THEN <<Signal("device_disconnected", "")>> ELSE <<>>)
    \o (IF new.reconnects = 1
          THEN <<Signal("device_reconnected", "")>> ELSE <<>>)

\* A failed check that emits device_disconnected only when is_connected
\* (lines 46-50 and 74-78).
FailGuarded(r) ==
    LET n == r.consecutive_failures + 1
        lost == n >= r.max_failures /\ r.is_connected
    IN [r EXCEPT !.consecutive_failures = n,
                 !.failStreak = @ + 1,
                 !.is_connected = IF lost THEN FALSE ELSE @,
                 !.lostInStreak = IF lost THEN @ + 1 ELSE @,
                 !.reconnects = 0]

\* A probe that returned nothing (lines 67-71): device_disconnected is
\* emitted whenever the counter has reached max_failures.
FailUnguarded(r) ==
    LET n == r.consecutive_failures + 1
        lost == n >= r.max_failures
    IN [r EXCEPT !.consecutive_failures = n,
                 !.failStreak = @ + 1,
                 !.is_connected = IF lost THEN FALSE ELSE @,
                 !.lostInStreak = IF lost THEN @ + 1 ELSE @,
                 !.reconnects = 0]

\* A probe that returned device info (lines 57-65).
Success_KeepsCounter(r) ==
    [r EXCEPT !.consecutive_failures = IF r.is_connected THEN @ ELSE 0,
              !.is_connected = TRUE,
              !.failStreak = 0,
              !.lostInStreak = 0,
              !.reconnects = IF r.is_connected THEN 0 ELSE 1]

Success_AlwaysReconnects(r) ==
    [r EXCEPT !.consecutive_failures = 0,
              !.is_connected = TRUE,
              !.failStreak = 0,
              !.lostInStreak = 0,
              !.reconnects = 1]

Success(r) ==
    [r EXCEPT !.consecutive_failures = 0,
              !.is_connected = TRUE,
              !.failStreak = 0,
              !.lostInStreak = 0,
              !.reconnects = IF r.is_connected THEN 0 ELSE 1]

InitMonitorsIdle ==
    /\ mon = [m \in Monitors |-> NoMonitor]
    /\ wt = NoWorker

\* while not self.should_stop (line 42); leaving the loop ends the thread.
MonLoop(m) ==
    /\ mon[m].pc = "loop"
    /\ mon' = [mon EXCEPT ![m].pc = IF mon[m].should_stop THEN "exit" ELSE "sleep"]
    /\ UNCHANGED <<wt, scanVars, txVars, codecVars, connVars, wizVars, liveVars>>

\* The monitor m moves to r, emitting what that check emits.
MonitorCheck(m, r) ==
    /\ Len(sigq) + Len(MonitorEmits(mon[m], r)) <= MaxQueued
    /\ sigq' = sigq \o MonitorEmits(mon[m], r)
    /\ mon' = [mon EXCEPT ![m] = [r EXCEPT !.pc = "loop"]]

\* msleep returns (line 43); without a connected worker the check fails
\* without a probe, otherwise read_device_info is called (line 55).
MonWake(m) ==
    /\ mon[m].pc = "sleep"
    /\ IF ~wt.exists \/ ~wt.is_connected
         THEN /\ mon[m].consecutive_failures < MaxStreak
              /\ MonitorCheck(m, FailGuarded(mon[m]))
         ELSE mon' = [mon EXCEPT ![m].pc = "probe"] /\ UNCHANGED sigq
    /\ UNCHANGED <<wt, scanVars, txVars, codecVars, connVars, wizVars, usb, host>>

\* read_device_info returns device info, returns None or raises.
MonProbeReturns(m, replies) ==
    /\ mon[m].pc = "probe"
    /\ \E reply \in replies :
         /\ reply # "info" => mon[m].consecutive_failures < MaxStreak
         /\ reply = "info" => wt.exists /\ wt.is_connected
         /\ MonitorCheck(m, CASE reply = "info" -> Success(mon[m])
                               [] reply = "none" -> FailUnguarded(mon[m])
                               [] OTHER -> FailGuarded(mon[m]))
    /\ UNCHANGED <<wt, scanVars, txVars, codecVars, connVars, wizVars, usb, host>>

\* ConnectionMonitor.stop (lines 83-85).
MonStop(m) ==
    /\ mon[m].pc \notin {"unused", "exit"}
    /\ ~mon[m].should_stop
    /\ mon' = [mon EXCEPT ![m].should_stop = TRUE]
    /\ UNCHANGED <<wt, scanVars, txVars, codecVars, connVars, wizVars, liveVars>>

\* ModbusWorkerThread.stop (src/modbus_worker.py lines 110-115).
WorkerStop ==
    /\ wt.exists
    /\ wt.is_connected
    /\ wt' = [wt EXCEPT !.is_connected = FALSE]
    /\ UNCHANGED <<mon, scanVars, txVars, codecVars, connVars, wizVars, liveVars>>

\* ------------------------------------------------------------------------
\* Hardware-presence monitor: src/wizard/usb_monitor.py
\* ------------------------------------------------------------------------

\* The port the wizard is connected on (StepConnect.port) and another
\* serial device node of the host.
MonitoredPath == "/dev/ttyUSB0"

OtherPath == "/dev/ttyUSB1"

DevicePaths == {MonitoredPath, OtherPath}

NoUsbMonitor == [pc |-> "unused", should_stop |-> FALSE, device_path |-> "",
                 known_ports |-> {}, events |-> <<>>]

\* USBMonitor.__init__ followed by start(): with pyudev the thread waits in
\* monitor.poll for tty events, without it the thread polls the list of
\* ports, starting from _known_ports = {device_path}.
NewUsbMonitor(device_path, udev) ==
    [pc |-> IF udev THEN "wait" ELSE "loop", should_stop |-> FALSE,
     device_path |-> device_path,
     known_ports |-> IF udev THEN {} ELSE {device_path},
     events |-> <<>>]

\* The udev filter (lines 134-135): an event for another node is skipped.
UdevPasses_NoFilter(u, node) == TRUE

UdevPasses(u, node) == ~(u.device_path # "" /\ node # u.device_path)

\* The polling filter (lines 167-168).
PollReports_NoFilter(u, removed) == TRUE

PollReports(u, removed) == u.device_path = "" \/ removed = u.device_path

\* device_removed.emit for every removed node in nodes; the signal carries
\* the node.  At most one node of the model passes the filter at a time.
UsbEmits(u, nodes) ==
    IF nodes = {} THEN <<>>
    ELSE LET n == CHOOSE x \in nodes : TRUE
         IN <<Signal("device_removed", n)>>
             \o (IF nodes \ {n} = {} THEN <<>>
                  ELSE LET k == CHOOSE x \in nodes \ {n} : TRUE
                       IN <<Signal("device_removed", k)>>)

\* while not self.should_stop of the polling modes (lines 84 and 158).
UsbLoop(m) ==
    /\ usb[m].pc = "loop"
    /\ usb' = [usb EXCEPT ![m].pc = IF usb[m].should_stop THEN "exit" ELSE "sleep"]
    /\ UNCHANGED <<host, sigq, scanVars, txVars, codecVars, connVars, monVars, wizVars>>

\* msleep returns: the ports are listed and compared with _known_ports.
UsbPoll(m) ==
    /\ usb[m].pc = "sleep"
    /\ LET removed == usb[m].known_ports \ host.ports
           reported == {n \in removed : PollReports(usb[m], n)}
       IN /\ Len(sigq) + Len(UsbEmits(usb[m], reported)) <= MaxQueued
          /\ sigq' = sigq \o UsbEmits(usb[m], reported)
    /\ usb' = [usb EXCEPT ![m].pc = "loop", ![m].known_ports = host.ports]
    /\ UNCHANGED <<host, scanVars, txVars, codecVars, connVars, monVars, wizVars>>

\* monitor.poll returns a tty event (lines 126-142): stop check, filter,
\* then device_removed for a removal.
UsbUdevEvent(m) ==
    /\ usb[m].pc = "wait"
    /\ usb[m].events # <<>>
    /\ LET e == Head(usb[m].events)
           emits == ~usb[m].should_stop /\ UdevPasses(usb[m], e.node) /\ e.action = "remove"
       IN /\ emits => Len(sigq) < MaxQueued
          /\ sigq' = IF emits THEN sigq \o UsbEmits(usb[m], {e.node}) ELSE sigq
    /\ usb' = [usb EXCEPT ![m].events = Tail(@),
                           ![m].pc = IF usb[m].should_stop THEN "exit" ELSE "wait"]
    /\ UNCHANGED <<host, scanVars, txVars, codecVars, connVars, monVars, wizVars>>

\* The kernel's tty event reaches every udev monitor that is listening.
UdevNotify(u, node, action) ==
    [m \in DOMAIN u |->
        IF u[m].pc = "wait" /\ ~u[m].should_stop
          THEN [u[m] EXCEPT !.events = Append(@, [node |-> node, action |-> action])]
          ELSE u[m]]

\* Environment: a serial device node disappears from the host.
PortRemoved(p) ==
    /\ p \in host.ports
    /\ \A m \in DOMAIN usb : Len(usb[m].events) < MaxQueued
    /\ host' = [host EXCEPT !.ports = @ \ {p}]
    /\ usb' = UdevNotify(usb, p, "remove")
    /\ UNCHANGED <<sigq, scanVars, txVars, codecVars, connVars, monVars, wizVars>>

\* Environment: a serial device node appears on the host.
PortAdded(p) ==
    /\ p \in DevicePaths \ host.ports
    /\ \A m \in DOMAIN usb : Len(usb[m].events) < MaxQueued
    /\ host' = [host EXCEPT !.ports = @ \cup {p}]
    /\ usb' = UdevNotify(usb, p, "add")
    /\ UNCHANGED <<sigq, scanVars, txVars, codecVars, connVars, monVars, wizVars>>

\* USBMonitor.stop (lines 184-186).
StopUsb(u, c) == IF c = 0 THEN u ELSE [u EXCEPT ![c].should_stop = TRUE]

\* A USBMonitor that can do nothing any more: ended, or stopped while it
\* waits in monitor.poll (it leaves at the next tty event without a signal).
UsbOver(u) == u.pc \in {"unused", "exit"} \/ (u.pc = "wait" /\ u.should_stop)

InitUsbIdle ==
    /\ usb = [m \in Monitors |-> NoUsbMonitor]
    /\ host = [ports |-> DevicePaths, udev |-> TRUE]
    /\ sigq = <<>>

\* ------------------------------------------------------------------------
\* Connection and configuration steps: src/wizard/step_connect.py,
\* src/wizard/step_config.py, src/wizard/config_worker.py,
\* src/config_manager.py, src/modbus_worker.py
\* ------------------------------------------------------------------------

\* Pending QTimer.singleShot restarts of the monitor that are explored.
MaxTimers == 2

\* max_retries of ConfigManager.read_device_config.
MaxRetries == 3

\* Register groups read and written: channels, Modbus speed, Modbus address
\* and CAN parameters (read order); channels, Modbus speed, CAN parameters
\* and Modbus address (write order).
NumGroups == 4

\* connection_monitor is the index of the current ConnectionMonitor and of
\* the USBMonitor created with it (0: none).  lostActed is history: the Lost
\* signals handled since the connection was made, by source.  loadedBy is
\* history: the kind of read that set config_loaded.  notice is history:
\* the message box of the last on_step2_disconnected since the connection
\* was made ("power_on": power can be switched on; "lost": the device
\* disconnected unexpectedly).  power_cycle_timer: the 60-second timer of
\* on_config_written is running.  clearedBy is history: what cleared
\* waiting_for_power_cycle last.  connectTimers counts the pending 5-second
\* timers of _connect_to_device; timeoutReported is history: a timer has
\* reported a connection timeout.
Gui0 == [current_step |-> 0, is_connected |-> FALSE, worker_thread |-> FALSE,
         connection_monitor |-> 0, connectedSignal |-> "none",
         restartTimers |-> 0, resumeTimers |-> 0,
         step3_worker |-> FALSE, read_btn |-> FALSE, write_btn |-> FALSE,
         config_loaded |-> FALSE, loadedBy |-> "none",
         waiting_for_power_cycle |-> FALSE,
         writtenWithFailures |-> FALSE,
         disconnectTimers |-> 0, lostActed |-> <<>>, notice |-> "none",
         power_cycle_timer |-> FALSE, clearedBy |-> "none",
         is_connecting |-> FALSE, connectTimers |-> 0, timeoutReported |-> FALSE]

Cfg0 == [kind |-> "none", pc |-> "idle", attempt |-> 0, group |-> 0,
         read_success |-> TRUE, config |-> FALSE, signal |-> "none",
         errors |-> 0, unverified |-> 0, issued |-> <<>>]

\* Start registers of the write transactions in the order in which
\* ConfigWriteWorker.run issues them: channels, Modbus speed, CAN
\* parameters, Modbus address.
WorkerWriteOrder == <<1, 3, 10, 6>>

\* The same in the order of ConfigManager.write_device_config: channels,
\* Modbus speed, Modbus address, CAN parameters.
ManagerWriteOrder == <<1, 3, 6, 10>>

InitWizardIdle ==
    /\ gui = Gui0
    /\ cfg = Cfg0

\* Responses to a function-0x10 request, by the checks of
\* ModbusRegisters.write_holding_registers that they pass or fail.
WriteResponse(present, long, crc, addr, func, echo) ==
    [present |-> present, long_enough |-> long, crc_ok |-> crc, address_ok |-> addr,
     function |-> func, echo_ok |-> echo]

WriteResponses ==
    { WriteResponse(FALSE, FALSE, FALSE, FALSE, "other", FALSE),
      WriteResponse(TRUE, FALSE, TRUE, TRUE, "exception", FALSE),
      WriteResponse(TRUE, TRUE, FALSE, TRUE, "match", TRUE),
      WriteResponse(TRUE, TRUE, TRUE, FALSE, "match", TRUE),
      WriteResponse(TRUE, TRUE, TRUE, TRUE, "exception", FALSE),
      WriteResponse(TRUE, TRUE, TRUE, TRUE, "other", FALSE),
      WriteResponse(TRUE, TRUE, TRUE, TRUE, "match", FALSE),
      WriteResponse(TRUE, TRUE, TRUE, TRUE, "match", TRUE) }

\* A response that passed the length, CRC, address and function checks.
Verified(r) ==
    r.present /\ r.long_enough /\ r.crc_ok /\ r.address_ok /\ r.function = "match"

\* write_holding_registers with a failure on an echo mismatch.
WriteHoldingRegisters_EchoChecked(r) ==
    IF ~r.present THEN FALSE
    ELSE IF ~r.long_enough THEN FALSE
    ELSE IF ~r.crc_ok THEN FALSE
    ELSE IF ~r.address_ok THEN FALSE
    ELSE IF r.function # "match" THEN FALSE
    ELSE r.echo_ok

\* Return value of ModbusRegisters.write_holding_registers for a response.
WriteHoldingRegisters(r) ==
    IF ~r.present THEN FALSE
    ELSE IF ~r.long_enough THEN FALSE
    ELSE IF ~r.crc_ok THEN FALSE
    ELSE IF ~r.address_ok THEN FALSE
    ELSE IF r.function # "match" THEN FALSE
    ELSE TRUE

\* ModbusWorkerThread.write_holding_registers: a dictionary whose status is
\* "success" or "error".
WorkerWriteStatus(ok) == IF ok THEN "success" ELSE "error"

\* The value ConfigWriteWorker.run emits with finished after its four
\* writes, given the number of writes whose status was "error": the status
\* dictionaries are dropped, the worker always emits True.
WriteWorkerReport(errors) == TRUE

\* StepConnect._stop_connection_monitoring: stop() on the current monitor;
\* the reference is dropped whether or not the bounded wait saw the thread end.
StopMonitoring(mn, c) == IF c = 0 THEN mn ELSE [mn EXCEPT ![c].should_stop = TRUE]

FreeMonitors(mn) == {m \in Monitors : mn[m].pc \in {"unused", "exit"} /\ UsbOver(usb[m])}

FreshMonitor(mn) == CHOOSE m \in FreeMonitors(mn) : \A k \in FreeMonitors(mn) : m <= k

\* StepConnect._start_connection_monitoring: stop the old monitor, then, if
\* there is a worker thread, create and start a new one.
CanStartMonitoring == gui.worker_thread => FreeMonitors(mon) # {}

StartMonitoring(g, fast_mode) ==
    LET stopped == StopMonitoring(mon, g.connection_monitor)
        stoppedUsb == StopUsb(usb, g.connection_monitor)
        m == FreshMonitor(mon)
    IN IF g.worker_thread
         THEN /\ mon' = [stopped EXCEPT ![m] = NewMonitor(fast_mode)]
              /\ usb' = [stoppedUsb EXCEPT ![m] = NewUsbMonitor(MonitoredPath, host.udev)]
              /\ gui' = [g EXCEPT !.connection_monitor = m]
         ELSE /\ mon' = stopped
              /\ usb' = stoppedUsb
              /\ gui' = [g EXCEPT !.connection_monitor = 0]

WorkerConnected == wt.exists /\ wt.is_connected

\* ConnectionWizard.next_step from the welcome step.
NextStepWelcome ==
    /\ gui.current_step = 0
    /\ gui' = [gui EXCEPT !.current_step = 1]
    /\ UNCHANGED <<cfg, monVars, scanVars, txVars, codecVars, connVars, liveVars>>

\* StepConnect._on_search_complete(True, ...) -> _connect_to_device: a worker
\* thread is created for the device the search found and started, and the
\* 5-second timer is started.
ConnectToDevice ==
    /\ gui.current_step = 1
    /\ ~gui.is_connected
    /\ wt.pc \in {"none", "failed"}
    /\ gui.connectedSignal = "none"
    /\ gui.connectTimers < MaxTimers
    /\ wt' = [exists |-> TRUE, is_connected |-> FALSE, pc |-> "starting"]
    /\ gui' = [gui EXCEPT !.is_connecting = FALSE, !.worker_thread = TRUE,
                          !.connectTimers = @ + 1, !.lostActed = <<>>,
                          !.notice = "none"]
    /\ UNCHANGED <<cfg, mon, scanVars, txVars, codecVars, connVars, liveVars>>

\* ModbusWorkerThread.run: open the port and emit connected(success, ...).
WorkerRun ==
    /\ wt.pc = "starting"
    /\ \E success \in BOOLEAN :
         /\ wt' = [wt EXCEPT !.is_connected = success,
                             !.pc = IF success THEN "running" ELSE "failed"]
         /\ gui' = [gui EXCEPT !.connectedSignal = IF success THEN "ok" ELSE "fail"]
    /\ UNCHANGED <<cfg, mon, scanVars, txVars, codecVars, connVars, liveVars>>

\* StepConnect._on_connected.
OnConnected ==
    /\ gui.connectedSignal # "none"
    /\ IF gui.connectedSignal = "ok"
         THEN gui' = [gui EXCEPT !.connectedSignal = "none", !.is_connected = TRUE,
                                 !.is_connecting = FALSE, !.restartTimers = @ + 1]
         ELSE gui' = [gui EXCEPT !.connectedSignal = "none"]
    /\ UNCHANGED <<cfg, monVars, scanVars, txVars, codecVars, connVars, liveVars>>

\* The 5-second timer of _connect_to_device fires:
\* StepConnect._check_connection_timeout.
CheckConnectionTimeout ==
    /\ gui.connectTimers > 0
    /\ gui' = [gui EXCEPT !.connectTimers = @ - 1,
                          !.timeoutReported = IF gui.is_connecting /\ gui.worker_thread
                                                THEN TRUE ELSE @]
    /\ UNCHANGED <<cfg, monVars, scanVars, txVars, codecVars, connVars, liveVars>>

\* The 2-second timer of _on_connected fires: _restart_connection_monitoring.
RestartConnectionMonitoring ==
    /\ gui.restartTimers > 0
    /\ CanStartMonitoring
    /\ LET g == [gui EXCEPT !.restartTimers = @ - 1]
       IN IF gui.is_connected /\ gui.connection_monitor = 0
            THEN StartMonitoring(g, FALSE)
            ELSE gui' = g /\ UNCHANGED <<mon, usb>>
    /\ UNCHANGED <<cfg, wt, scanVars, txVars, codecVars, connVars, host, sigq>>

\* ConnectionWizard.next_step from the connection step: set_worker_thread.
NextStepConnect ==
    /\ gui.current_step = 1
    /\ gui.is_connected
    /\ gui' = [gui EXCEPT !.current_step = 2,
                          !.step3_worker = gui.worker_thread,
                          !.read_btn = IF gui.worker_thread THEN TRUE ELSE @]
    /\ UNCHANGED <<cfg, monVars, scanVars, txVars, codecVars, connVars, liveVars>>

\* StepConfig.read_config.
ReadConfig ==
    /\ gui.current_step = 2
    /\ gui.read_btn
    /\ gui.step3_worker /\ wt.is_connected
    /\ gui.resumeTimers < MaxTimers
    /\ mon' = StopMonitoring(mon, gui.connection_monitor)
    /\ usb' = StopUsb(usb, gui.connection_monitor)
    /\ gui' = [gui EXCEPT !.read_btn = FALSE, !.write_btn = FALSE, !.connection_monitor = 0]
    /\ cfg' = [Cfg0 EXCEPT !.kind = "read", !.pc = "start"]
    /\ UNCHANGED <<wt, scanVars, txVars, codecVars, connVars, host, sigq>>

\* StepConfig.write_config, confirmed by the user.
WriteConfig ==
    /\ gui.current_step = 2
    /\ gui.write_btn
    /\ gui.config_loaded
    /\ gui.step3_worker /\ wt.is_connected
    /\ mon' = StopMonitoring(mon, gui.connection_monitor)
    /\ usb' = StopUsb(usb, gui.connection_monitor)
    /\ gui' = [gui EXCEPT !.read_btn = FALSE, !.write_btn = FALSE, !.connection_monitor = 0]
    /\ cfg' = [Cfg0 EXCEPT !.kind = "write", !.pc = "run", !.group = 1]
    /\ UNCHANGED <<wt, scanVars, txVars, codecVars, connVars, host, sigq>>

\* ConfigReadWorker.run enters read_device_config: without a connected
\* worker it returns None at once and the worker emits error.
CfgReadStart ==
    /\ cfg.kind = "read" /\ cfg.pc = "start"
    /\ IF WorkerConnected
         THEN cfg' = [cfg EXCEPT !.pc = "run", !.attempt = 1, !.group = 1]
         ELSE cfg' = [cfg EXCEPT !.pc = "emitted", !.signal = "error"]
    /\ UNCHANGED <<gui, monVars, scanVars, txVars, codecVars, connVars, liveVars>>

\* One read_holding_registers call of an attempt is issued; a worker that is
\* no longer connected returns None without touching the link.
CfgReadIssue ==
    /\ cfg.kind = "read" /\ cfg.pc = "run" /\ cfg.group \in 1..NumGroups
    /\ IF WorkerConnected
         THEN cfg' = [cfg EXCEPT !.pc = "tx"]
         ELSE cfg' = [cfg EXCEPT !.read_success = FALSE, !.group = @ + 1]
    /\ UNCHANGED <<gui, monVars, scanVars, txVars, codecVars, connVars, liveVars>>

\* The read returns: values that pass the checks are stored in config, any
\* other result clears read_success.
CfgReadReturns ==
    /\ cfg.kind = "read" /\ cfg.pc = "tx" /\ cfg.group \in 1..NumGroups
    /\ \E ok \in BOOLEAN :
         cfg' = [cfg EXCEPT !.pc = "run", !.group = @ + 1,
                            !.config = IF ok THEN TRUE ELSE @,
                            !.read_success = IF ok THEN @ ELSE FALSE]
    /\ UNCHANGED <<gui, monVars, scanVars, txVars, codecVars, connVars, liveVars>>

\* End of an attempt (lines 149-181): return the configuration, retry, or
\* give up returning what the last attempt collected (None if nothing).
CfgReadAttemptEnd ==
    /\ cfg.kind = "read" /\ cfg.pc = "run" /\ cfg.group = NumGroups + 1
    /\ IF cfg.read_success
         THEN cfg' = [cfg EXCEPT !.group = NumGroups + 2]
         ELSE IF cfg.attempt < MaxRetries
           THEN cfg' = [cfg EXCEPT !.attempt = @ + 1, !.group = 1,
                                   !.config = FALSE, !.read_success = TRUE]
           ELSE IF cfg.config
             THEN cfg' = [cfg EXCEPT !.group = NumGroups + 2]
             ELSE cfg' = [cfg EXCEPT !.pc = "emitted", !.signal = "error"]
    /\ UNCHANGED <<gui, monVars, scanVars, txVars, codecVars, connVars, liveVars>>

\* ConfigReadWorker.run lines 40-45: read_device_info, then finished(config).
CfgReadInfoIssue ==
    /\ cfg.kind = "read" /\ cfg.pc = "run" /\ cfg.group = NumGroups + 2
    /\ IF WorkerConnected
         THEN cfg' = [cfg EXCEPT !.pc = "tx"]
         ELSE cfg' = [cfg EXCEPT !.pc = "emitted", !.signal = "finished"]
    /\ UNCHANGED <<gui, monVars, scanVars, txVars, codecVars, connVars, liveVars>>

CfgReadInfoReturns ==
    /\ cfg.kind = "read" /\ cfg.pc = "tx" /\ cfg.group = NumGroups + 2
    /\ cfg' = [cfg EXCEPT !.pc = "emitted", !.signal = "finished"]
    /\ UNCHANGED <<gui, monVars, scanVars, txVars, codecVars, connVars, liveVars>>

\* ConfigWriteWorker.run: one of the four _write_* calls is issued.
CfgWriteIssue ==
    /\ cfg.kind = "write" /\ cfg.pc = "run" /\ cfg.group \in 1..NumGroups
    /\ IF WorkerConnected
         THEN cfg' = [cfg EXCEPT !.pc = "tx",
                                 !.issued = Append(@, WorkerWriteOrder[cfg.group])]
         ELSE cfg' = [cfg EXCEPT !.errors = @ + 1, !.unverified = @ + 1, !.group = @ + 1]
    /\ UNCHANGED <<gui, monVars, scanVars, txVars, codecVars, connVars, liveVars>>

\* The write returns a status dictionary, which the worker does not look
\* at.  errors counts the "error" statuses, unverified the writes whose
\* response did not pass the length, CRC, address and function checks.
CfgWriteReturns ==
    /\ cfg.kind = "write" /\ cfg.pc = "tx"
    /\ \E r \in WriteResponses :
         cfg' = [cfg EXCEPT !.pc = "run", !.group = @ + 1,
                   !.errors = IF WorkerWriteStatus(WriteHoldingRegisters(r)) = "error"
                                THEN @ + 1 ELSE @,
                   !.unverified = IF Verified(r) THEN @ ELSE @ + 1]
    /\ UNCHANGED <<gui, monVars, scanVars, txVars, codecVars, connVars, liveVars>>

\* After the last write: finished.emit(True).
CfgWriteFinished ==
    /\ cfg.kind = "write" /\ cfg.pc = "run" /\ cfg.group = NumGroups + 1
    /\ cfg' = [cfg EXCEPT !.pc = "emitted",
                          !.signal = IF WriteWorkerReport(cfg.errors)
                                       THEN "finished_true" ELSE "finished_false"]
    /\ UNCHANGED <<gui, monVars, scanVars, txVars, codecVars, connVars, liveVars>>

\* ModbusRTUGUI.write_device_config, confirmed by the user, enters
\* ConfigManager.write_device_config with every key of the configuration
\* present; without a connected worker the manager returns False at once.
ManagerWriteStart ==
    /\ cfg.kind = "none"
    /\ gui.current_step = 0
    /\ wt.exists
    /\ IF wt.is_connected
         THEN cfg' = [Cfg0 EXCEPT !.kind = "manager", !.pc = "run", !.group = 1]
         ELSE cfg' = [Cfg0 EXCEPT !.kind = "manager", !.pc = "emitted",
                                  !.signal = "manager_false"]
    /\ UNCHANGED <<gui, monVars, scanVars, txVars, codecVars, connVars, liveVars>>

\* ConfigManager.write_device_config: one of its four writes is issued.  A
\* worker that is no longer connected returns no dictionary and nothing
\* goes to the device.
ManagerWriteIssue ==
    /\ cfg.kind = "manager" /\ cfg.pc = "run" /\ cfg.group \in 1..NumGroups
    /\ IF WorkerConnected
         THEN cfg' = [cfg EXCEPT !.pc = "tx",
                                 !.issued = Append(@, ManagerWriteOrder[cfg.group])]
         ELSE cfg' = [cfg EXCEPT !.errors = @ + 1, !.unverified = @ + 1, !.group = @ + 1]
    /\ UNCHANGED <<gui, monVars, scanVars, txVars, codecVars, connVars, liveVars>>

\* The write returns its status dictionary; the manager counts the
\* "success" ones (errors counts the others).
ManagerWriteReturns ==
    /\ cfg.kind = "manager" /\ cfg.pc = "tx"
    /\ \E r \in WriteResponses :
         cfg' = [cfg EXCEPT !.pc = "run", !.group = @ + 1,
                   !.errors = IF WorkerWriteStatus(WriteHoldingRegisters(r)) = "error"
                                THEN @ + 1 ELSE @,
                   !.unverified = IF Verified(r) THEN @ ELSE @ + 1]
    /\ UNCHANGED <<gui, monVars, scanVars, txVars, codecVars, connVars, liveVars>>

\* After the last write: return success_count == total_operations.
ManagerWriteEnd ==
    /\ cfg.kind = "manager" /\ cfg.pc = "run" /\ cfg.group = NumGroups + 1
    /\ cfg' = [cfg EXCEPT !.pc = "emitted",
                          !.signal = IF cfg.errors = 0
                                       THEN "manager_true" ELSE "manager_false"]
    /\ UNCHANGED <<gui, monVars, scanVars, txVars, codecVars, connVars, liveVars>>

\* StepConfig._on_read_finished.
OnReadFinished ==
    /\ cfg.kind = "read" /\ cfg.pc = "emitted" /\ cfg.signal = "finished"
    /\ gui' = [gui EXCEPT !.config_loaded = TRUE, !.resumeTimers = @ + 1,
                          !.loadedBy = IF cfg.read_success THEN "complete" ELSE "partial",
                          !.read_btn = TRUE, !.write_btn = TRUE]
    /\ cfg' = Cfg0
    /\ UNCHANGED <<monVars, scanVars, txVars, codecVars, connVars, liveVars>>

\* StepConfig._on_read_error.
OnReadError ==
    /\ cfg.kind = "read" /\ cfg.pc = "emitted" /\ cfg.signal = "error"
    /\ gui' = [gui EXCEPT !.resumeTimers = @ + 1, !.read_btn = TRUE, !.write_btn = TRUE]
    /\ cfg' = Cfg0
    /\ UNCHANGED <<monVars, scanVars, txVars, codecVars, connVars, liveVars>>

\* StepConfig._on_write_finished; on success config_written reaches
\* ConnectionWizard.on_config_written and the monitor restarts in fast mode.
OnWriteFinished ==
    /\ cfg.kind = "write" /\ cfg.pc = "emitted"
    /\ CanStartMonitoring
    /\ IF cfg.signal = "finished_true"
         THEN StartMonitoring([gui EXCEPT !.waiting_for_power_cycle = TRUE,
                                          !.power_cycle_timer = TRUE,
                                          !.writtenWithFailures = cfg.unverified > 0,
                                          !.read_btn = TRUE, !.write_btn = TRUE], TRUE)
         ELSE /\ gui' = [gui EXCEPT !.read_btn = TRUE, !.write_btn = TRUE]
              /\ UNCHANGED <<mon, usb>>
    /\ cfg' = Cfg0
    /\ UNCHANGED <<wt, scanVars, txVars, codecVars, connVars, host, sigq>>

\* The 2-second timer of _resume_connection_monitor fires.
ResumeConnectionMonitor ==
    /\ gui.resumeTimers > 0
    /\ CanStartMonitoring
    /\ StartMonitoring([gui EXCEPT !.resumeTimers = @ - 1], FALSE)
    /\ UNCHANGED <<cfg, wt, scanVars, txVars, codecVars, connVars, host, sigq>>

\* StepConfig.reset.
ResetStep3(g) ==
    [g EXCEPT !.config_loaded = FALSE, !.loadedBy = "none", !.read_btn = FALSE,
              !.write_btn = FALSE]

\* on_step2_disconnected leaving the wizard on the configuration step when
\* the disconnect was not planned.
OnStep2Disconnected_StaysOnUnexpected(g) ==
    IF g.current_step = 2 /\ g.waiting_for_power_cycle
      THEN [ResetStep3(g) EXCEPT !.waiting_for_power_cycle = FALSE, !.current_step = 1,
                                 !.power_cycle_timer = FALSE, !.clearedBy = "lost",
                                 !.notice = "power_on"]
    ELSE IF g.current_step = 2
      THEN [g EXCEPT !.notice = "lost"]
    ELSE IF g.waiting_for_power_cycle
      THEN [g EXCEPT !.waiting_for_power_cycle = FALSE, !.power_cycle_timer = FALSE,
                     !.clearedBy = "lost"]
    ELSE g

\* ConnectionWizard.on_step2_disconnected, the slot of StepConnect.disconnected.
OnStep2Disconnected(g) ==
    IF g.current_step = 2 /\ g.waiting_for_power_cycle
      THEN [ResetStep3(g) EXCEPT !.waiting_for_power_cycle = FALSE, !.current_step = 1,
                                 !.power_cycle_timer = FALSE, !.clearedBy = "lost",
                                 !.notice = "power_on"]
    ELSE IF g.current_step = 2
      THEN [ResetStep3(g) EXCEPT !.current_step = 1, !.notice = "lost"]
    ELSE IF g.waiting_for_power_cycle
      THEN [g EXCEPT !.waiting_for_power_cycle = FALSE, !.power_cycle_timer = FALSE,
                     !.clearedBy = "lost"]
    ELSE g

\* _on_power_cycle_timeout without its body: the flag outlives the timer.
PowerCycleTimeout_KeepsFlag(g) == g

\* ConnectionWizard._on_power_cycle_timeout.
PowerCycleTimeout(g) ==
    IF g.waiting_for_power_cycle
      THEN [g EXCEPT !.waiting_for_power_cycle = FALSE, !.clearedBy = "timeout"]
      ELSE g

\* The single-shot 60-second timer started by on_config_written fires.
OnPowerCycleTimeout ==
    /\ gui.power_cycle_timer
    /\ gui' = [PowerCycleTimeout(gui) EXCEPT !.power_cycle_timer = FALSE]
    /\ UNCHANGED <<cfg, monVars, scanVars, txVars, codecVars, connVars, liveVars>>

\* ConnectionWizard._close_power_cycle_notification, called by the handler
\* of the signal named by.
ClosePowerCycleNotification(g, by) ==
    IF g.waiting_for_power_cycle
      THEN [g EXCEPT !.waiting_for_power_cycle = FALSE, !.power_cycle_timer = FALSE,
                     !.clearedBy = by]
      ELSE g

\* What both Lost handlers do after their notification: stop the monitors
\* and schedule disconnect.
LostHandled(g) ==
    /\ gui.disconnectTimers < MaxTimers
    /\ Len(gui.lostActed) < MaxTimers
    /\ mon' = StopMonitoring(mon, gui.connection_monitor)
    /\ usb' = StopUsb(usb, gui.connection_monitor)
    /\ gui' = [g EXCEPT !.connection_monitor = 0,
                         !.disconnectTimers = @ + 1,
                         !.lostActed = Append(@, Head(sigq).sig)]
    /\ sigq' = Tail(sigq)

\* StepConnect._on_device_power_lost, the slot of device_disconnected.
OnDevicePowerLost ==
    /\ sigq # <<>>
    /\ Head(sigq).sig = "device_disconnected"
    /\ LostHandled(IF gui.waiting_for_power_cycle THEN OnStep2Disconnected(gui) ELSE gui)
    /\ UNCHANGED <<cfg, wt, host, scanVars, txVars, codecVars, connVars>>

\* StepConnect._on_usb_device_removed, the slot of device_removed.
OnUsbDeviceRemoved ==
    /\ sigq # <<>>
    /\ Head(sigq).sig = "device_removed"
    /\ LostHandled(IF gui.waiting_for_power_cycle
                     THEN OnStep2Disconnected(ClosePowerCycleNotification(gui, "lost"))
                     ELSE gui)
    /\ UNCHANGED <<cfg, wt, host, scanVars, txVars, codecVars, connVars>>

\* StepConnect._on_device_reconnected, the slot of device_reconnected.
OnDeviceReconnected ==
    /\ sigq # <<>>
    /\ Head(sigq).sig = "device_reconnected"
    /\ gui' = IF gui.waiting_for_power_cycle THEN ClosePowerCycleNotification(gui, "reconnected") ELSE gui
    /\ sigq' = Tail(sigq)
    /\ UNCHANGED <<cfg, monVars, usb, host, scanVars, txVars, codecVars, connVars>>

\* StepConnect.disconnect, called by the timer of a Lost handler or by the
\* user (toggle_connection while connected on the connection step).
Disconnect ==
    /\ \E byTimer \in BOOLEAN :
         /\ IF byTimer THEN gui.disconnectTimers > 0
                       ELSE gui.current_step = 1 /\ gui.is_connected
         /\ gui' = OnStep2Disconnected(
                       [gui EXCEPT !.disconnectTimers = IF byTimer THEN @ - 1 ELSE @,
                                   !.connection_monitor = 0,
                                   !.worker_thread = FALSE,
                                   !.is_connected = FALSE])
    /\ mon' = StopMonitoring(mon, gui.connection_monitor)
    /\ usb' = StopUsb(usb, gui.connection_monitor)
    /\ wt' = IF gui.worker_thread THEN NoWorker ELSE wt
    /\ UNCHANGED <<cfg, host, sigq, scanVars, txVars, codecVars, connVars>>

GuiStep ==
    \/ NextStepWelcome
    \/ ConnectToDevice
    \/ OnConnected
    \/ RestartConnectionMonitoring
    \/ NextStepConnect
    \/ ReadConfig
    \/ WriteConfig
    \/ OnReadFinished
    \/ OnReadError
    \/ OnWriteFinished
    \/ ResumeConnectionMonitor
    \/ OnPowerCycleTimeout
    \/ CheckConnectionTimeout

ConfigWorkerStep ==
    \/ CfgReadStart
    \/ CfgReadIssue
    \/ CfgReadReturns
    \/ CfgReadAttemptEnd
    \/ CfgReadInfoIssue
    \/ CfgReadInfoReturns
    \/ CfgWriteIssue
    \/ CfgWriteReturns
    \/ CfgWriteFinished

InitScanIdle ==
    /\ scanPc = "idle"
    /\ address = 0
    /\ baudIdx = 0
    /\ search_should_stop = FALSE
    /\ scannerLoad = "ok"
    /\ scanFault = NoDevice
    /\ device = NoDevice
    /\ infoReply = "reply"
    /\ probeCount = 0
    /\ lastProbe = NoDevice
    /\ probeResult = NoInfo
    /\ scanLog = ScanLog0
    /\ outcome = "none"
    /\ found_device = NoFound

\* ------------------------------------------------------------------------
\* Modbus transactions: src/core/modbus_registers.py,
\* src/core/modbus_device_info.py
\* ------------------------------------------------------------------------

\* Registers or coils in one request that are explored.
MaxCount == 2

\* device_address of the client.
DeviceAddress == 4

\* A response returned by connection.read(100): its bytes, the last two
\* being the CRC field, and whether the CRC field equals _calculate_crc16 of
\* the bytes before it.  No bytes: the read timed out.
Frame(bytes, crc_ok) == [bytes |-> bytes, crc_ok |-> crc_ok]

NoResponse == Frame(<<>>, FALSE)

Word(hi, lo) == hi * 256 + lo

Hi(v) == (v \div 256) % 256

Lo(v) == v % 256

\* Function codes of write_holding_registers, write_single_register,
\* write_single_coil and write_multiple_coils.
WriteOps == {16, 6, 5, 15}

\* A request as it is put on the link.
Sent(fc, start, count) == [fc |-> fc, start |-> start, count |-> count]

\* The second word a write response is compared with: the count for 0x10
\* and 0x0F, the value for 0x06, coil_value for 0x05.
EchoWord(req) ==
    CASE req.op \in {16, 15} -> Len(req.values)
      [] req.op = 6 -> req.values[1]
      [] req.op = 5 -> IF req.values[1] # 0 THEN 65280 ELSE 0

\* response[1] against the function code of the request.
FunctionKind(byte, op) ==
    IF byte = op THEN "match"
    ELSE IF (byte \div 128) % 2 = 1 THEN "exception"
    ELSE "other"

\* The checks of a write operation evaluated on a response.
WriteChecks(f, req) ==
    LET b == f.bytes
        n == Len(f.bytes)
    IN  WriteResponse(n > 0, n >= 8, f.crc_ok,
                      n >= 1 /\ b[1] = DeviceAddress,
                      IF n >= 2 THEN FunctionKind(b[2], req.op) ELSE "other",
                      n >= 6 /\ Word(b[3], b[4]) = req.start
                             /\ Word(b[5], b[6]) = EchoWord(req))

Class(kind, code) == [kind |-> kind, code |-> code]

\* What a write operation reports about a response (its log lines), with
\* the CRC compared before the length.
WriteClass_CrcBeforeLength(f, req) ==
    LET r == WriteChecks(f, req)
    IN  IF ~r.present THEN Class("NoResponse", 0)
        ELSE IF ~r.crc_ok THEN Class("CrcMismatch", 0)
        ELSE IF ~r.long_enough THEN Class("ShortResponse", 0)
        ELSE IF ~r.address_ok THEN Class("AddressMismatch", 0)
        ELSE IF r.function = "exception" THEN Class("ExceptionResponse", f.bytes[3])
        ELSE IF r.function = "other" THEN Class("UnexpectedFunction", f.bytes[2])
        ELSE Class("Ok", 0)

\* What a write operation reports about a response (its log lines).
WriteClass(f, req) ==
    LET r == WriteChecks(f, req)
    IN  IF ~r.present THEN Class("NoResponse", 0)
        ELSE IF ~r.long_enough THEN Class("ShortResponse", 0)
        ELSE IF ~r.crc_ok THEN Class("CrcMismatch", 0)
        ELSE IF ~r.address_ok THEN Class("AddressMismatch", 0)
        ELSE IF r.function = "exception" THEN Class("ExceptionResponse", f.bytes[3])
        ELSE IF r.function = "other" THEN Class("UnexpectedFunction", f.bytes[2])
        ELSE Class("Ok", 0)

\* One call of a write operation: nothing is sent on a closed link or, for
\* 0x10 and 0x0F, without values; otherwise the request is sent once and one
\* response is read and checked.
ModbusWrite(req, link_open, f) ==
    IF ~link_open
    THEN [result |-> FALSE, class |-> Class("PortClosed", 0), sent |-> <<>>]
    ELSE IF req.op \in {16, 15} /\ req.values = <<>>
    THEN [result |-> FALSE, class |-> Class("NoValues", 0), sent |-> <<>>]
    ELSE [result |-> WriteHoldingRegisters(WriteChecks(f, req)),
          class |-> WriteClass(f, req),
          sent |-> <<Sent(req.op, req.start, EchoWord(req))>>]

\* Return values of the read operations.
None == [none |-> TRUE, registers |-> <<>>]

Registers(values) == [none |-> FALSE, registers |-> values]

\* Python truth of a return value: a list with at least one register.
Truthy(r) == ~r.none /\ r.registers # <<>>

Min(a, b) == IF a < b THEN a ELSE b

\* The registers taken from a command-17 response that answers a register
\* read: byte pairs from offset 8 on, at most count of them (one when count
\* is not positive).
RegistersOfCommand17(b, count) ==
    LET pairs == IF Len(b) >= 8 THEN (Len(b) - 8) \div 2 ELSE 0
        n == Min(pairs, IF count >= 1 THEN count ELSE 1)
    IN  [k \in 1..n |-> Word(b[2 * k + 7], b[2 * k + 8])]

\* The registers of a response of byte_count data bytes.
RegistersOfResponse(b) ==
    [k \in 1..((b[3] + 1) \div 2) |-> Word(b[2 * k + 2], b[2 * k + 3])]

\* _read_registers_with_function with a failure (None) on a CRC mismatch.
ReadRegistersWithFunction_CrcIsNone(req, fc, link_open, f) ==
    LET b == f.bytes
        sent == <<Sent(fc, req.start, req.count)>>
    IN  IF ~link_open THEN [result |-> None, sent |-> <<>>]
        ELSE IF Len(b) = 0 THEN [result |-> None, sent |-> sent]
        ELSE IF Len(b) < 5 THEN [result |-> None, sent |-> sent]
        ELSE IF ~f.crc_ok THEN [result |-> None, sent |-> sent]
        ELSE IF b[1] # DeviceAddress THEN [result |-> None, sent |-> sent]
        ELSE IF b[2] # fc
        THEN IF b[2] = 17 /\ RegistersOfCommand17(b, req.count) # <<>>
             THEN [result |-> Registers(RegistersOfCommand17(b, req.count)), sent |-> sent]
             ELSE [result |-> None, sent |-> sent]
        ELSE IF Len(b) < 5 + b[3] THEN [result |-> None, sent |-> sent]
        ELSE [result |-> Registers(RegistersOfResponse(b)), sent |-> sent]

\* _read_registers_with_function: one transaction with function code fc.
ReadRegistersWithFunction(req, fc, link_open, f) ==
    LET b == f.bytes
        sent == <<Sent(fc, req.start, req.count)>>
    IN  IF ~link_open THEN [result |-> None, sent |-> <<>>]
        ELSE IF Len(b) = 0 THEN [result |-> None, sent |-> sent]
        ELSE IF Len(b) < 5 THEN [result |-> None, sent |-> sent]
        ELSE IF ~f.crc_ok THEN [result |-> Registers(<<>>), sent |-> sent]
        ELSE IF b[1] # DeviceAddress THEN [result |-> None, sent |-> sent]
        ELSE IF b[2] # fc
        THEN IF b[2] = 17 /\ RegistersOfCommand17(b, req.count) # <<>>
             THEN [result |-> Registers(RegistersOfCommand17(b, req.count)), sent |-> sent]
             ELSE [result |-> None, sent |-> sent]
        ELSE IF Len(b) < 5 + b[3] THEN [result |-> None, sent |-> sent]
        ELSE [result |-> Registers(RegistersOfResponse(b)), sent |-> sent]

\* read_holding_registers with the second attempt made only after None.
ReadHoldingRegisters_FallbackOnNone(req, link_open, fs) ==
    LET r1 == ReadRegistersWithFunction(req, 3, link_open, fs[1])
        r2 == ReadRegistersWithFunction(req, 4, link_open, fs[2])
    IN  IF ~r1.result.none
        THEN [result |-> r1.result, sent |-> r1.sent, attempts |-> <<r1.result>>]
        ELSE [result |-> r2.result, sent |-> r1.sent \o r2.sent,
              attempts |-> <<r1.result, r2.result>>]

\* read_holding_registers: function 0x03, then function 0x04 unless the first
\* attempt returned registers.  attempts is history: what each attempt
\* returned.
ReadHoldingRegisters(req, link_open, fs) ==
    LET r1 == ReadRegistersWithFunction(req, 3, link_open, fs[1])
        r2 == ReadRegistersWithFunction(req, 4, link_open, fs[2])
    IN  IF Truthy(r1.result)
        THEN [result |-> r1.result, sent |-> r1.sent, attempts |-> <<r1.result>>]
        ELSE [result |-> r2.result, sent |-> r1.sent \o r2.sent,
              attempts |-> <<r1.result, r2.result>>]

\* range(2) of the retry loop of _send_modbus_command_17.
ExtraReads == 2

\* The retry loop: the index of the first of the extra reads k..ExtraReads
\* whose response has a valid CRC, 0 when there is none (the else of the
\* for).
RECURSIVE RetryRead(_, _)
RetryRead(fs, k) ==
    IF k > ExtraReads THEN 0
    ELSE IF Len(fs[1 + k].bytes) >= 2 /\ fs[1 + k].crc_ok THEN k
    ELSE RetryRead(fs, k + 1)

\* The result once a response has been taken, without the comparison for a
\* response of a retry.
Command17Accepted_RetryUnchecked(fs, reads) ==
    LET b == fs[reads].bytes
    IN  IF reads = 1 /\ (b[1] # DeviceAddress \/ b[2] # 17)
        THEN [data |-> FALSE, accepted |-> 0, writes |-> 1, reads |-> reads]
        ELSE [data |-> TRUE, accepted |-> reads, writes |-> 1, reads |-> reads]

\* The result of _send_modbus_command_17 once the response read number
\* `reads` has been taken: the address and function bytes are compared, then
\* the response is parsed (a dictionary for every response).
Command17Accepted(fs, reads) ==
    LET b == fs[reads].bytes
    IN  IF b[1] # DeviceAddress \/ b[2] # 17
        THEN [data |-> FALSE, accepted |-> 0, writes |-> 1, reads |-> reads]
        ELSE [data |-> TRUE, accepted |-> reads, writes |-> 1, reads |-> reads]

\* _send_modbus_command_17: one write of the request, one read, and extra
\* reads after a CRC mismatch.  data: a dictionary is returned (None
\* otherwise); accepted, writes and reads are history: the read whose
\* response was parsed, and the calls of connection.write and
\* connection.read.
SendModbusCommand17(write_ok, fs) ==
    LET failed(reads) == [data |-> FALSE, accepted |-> 0, writes |-> 1, reads |-> reads]
    IN  IF ~write_ok THEN failed(0)
        ELSE IF Len(fs[1].bytes) < 7 THEN failed(1)
        ELSE IF fs[1].crc_ok THEN Command17Accepted(fs, 1)
        ELSE IF RetryRead(fs, 1) = 0 THEN failed(1 + ExtraReads)
        ELSE Command17Accepted(fs, 1 + RetryRead(fs, 1))

\* Responses of a device to a write request: none, an exception response
\* (five bytes), the same padded to eight bytes, and eight-byte responses
\* echoing the request or not, each from the addressed or another device,
\* with the function code of the request, with its exception bit set or
\* with another function code, with a valid or damaged CRC field.
WriteFrames(req) ==
    LET tails == { <<2>>, <<2, 0, 0, 0>>,
                   <<Hi(req.start), Lo(req.start), Hi(EchoWord(req)), Lo(EchoWord(req))>>,
                   <<Hi(req.start), Lo(req.start + 1), Hi(EchoWord(req)), Lo(EchoWord(req))>>,
                   <<Hi(req.start), Lo(req.start), Hi(EchoWord(req)), Lo(EchoWord(req) + 1)>> }
    IN  {NoResponse} \cup
        { Frame(<<a, fn>> \o t \o <<18, 52>>, c) :
            a \in {DeviceAddress, DeviceAddress + 1},
            fn \in {req.op, req.op + 128, 3},
            t \in tails, c \in BOOLEAN }

\* Responses to a register read: none, a response cut after the byte count,
\* responses of zero, one and two registers, and a command-17 payload.
ReadFrames ==
    LET tails == { <<2>>, <<0>>, <<2, 0, 7>>, <<4, 0, 7, 0, 8>>,
                   <<0, 0, 0, 0, 0, 0, 0, 9>> }
    IN  {NoResponse} \cup
        { Frame(<<a, fn>> \o t \o <<18, 52>>, c) :
            a \in {DeviceAddress, DeviceAddress + 1},
            fn \in {3, 4, 17},
            t \in tails, c \in BOOLEAN }

\* Responses to command 17: none, two bytes only, a four-byte response, and
\* identification payloads of seven and ten bytes.
Command17Frames ==
    {NoResponse, Frame(<<18, 52>>, TRUE), Frame(<<18, 52>>, FALSE)} \cup
    { Frame(<<a, fn>> \o t \o <<18, 52>>, c) :
        a \in {DeviceAddress, DeviceAddress + 1},
        fn \in {17, 3},
        t \in {<<>>, <<0, 0, 0>>, <<1, 2, 3, 4, 5, 0>>}, c \in BOOLEAN }

NoRequest == [op |-> 0, start |-> 0, count |-> 0, values |-> <<>>]

NoOutcome == [kind |-> "none"]

NoCall == [pc |-> "idle", req |-> NoRequest, link_open |-> FALSE, frames |-> <<>>,
           out |-> NoOutcome]

InitTransactionIdle == call = NoCall

\* A caller about to run one operation of ModbusRegisters or
\* ModbusDeviceInfo: the request, the state of the link and what the link
\* returns to each read.
InitTransaction ==
    /\ InitScanIdle /\ InitMonitorsIdle /\ InitWizardIdle /\ InitUsbIdle
    /\ InitCodecIdle /\ InitConnectionIdle
    /\ \E link_open \in BOOLEAN, start \in {3, 258} :
         \/ \E op \in WriteOps, n \in 0..MaxCount :
              (n = 1 \/ op \in {16, 15}) /\
              LET req == [op |-> op, start |-> start, count |-> n,
                          values |-> [k \in 1..n |-> 1]]
              IN  \E f \in (IF n = 0 THEN {NoResponse} ELSE WriteFrames(req)) :
                    call = [pc |-> "ready", req |-> req, link_open |-> link_open,
                            frames |-> <<f>>, out |-> NoOutcome]
         \/ \E n \in 1..MaxCount, f1 \in ReadFrames, f2 \in ReadFrames :
              call = [pc |-> "ready",
                      req |-> [op |-> 3, start |-> start, count |-> n, values |-> <<>>],
                      link_open |-> link_open, frames |-> <<f1, f2>>, out |-> NoOutcome]
         \/ /\ start = 3
            /\ \E f1 \in Command17Frames, f2 \in Command17Frames, f3 \in Command17Frames :
                 call = [pc |-> "ready",
                         req |-> [op |-> 17, start |-> 0, count |-> 0, values |-> <<>>],
                         link_open |-> link_open, frames |-> <<f1, f2, f3>>,
                         out |-> NoOutcome]

CallWrite ==
    /\ call.pc = "ready" /\ call.req.op \in WriteOps
    /\ call' = [call EXCEPT !.pc = "done",
                  !.out = ModbusWrite(call.req, call.link_open, call.frames[1])]
    /\ UNCHANGED <<scanVars, monVars, wizVars, liveVars, codecVars, connVars>>

CallReadHoldingRegisters ==
    /\ call.pc = "ready" /\ call.req.op = 3
    /\ call' = [call EXCEPT !.pc = "done",
                  !.out = ReadHoldingRegisters(call.req, call.link_open, call.frames)]
    /\ UNCHANGED <<scanVars, monVars, wizVars, liveVars, codecVars, connVars>>

\* link_open stands for connection.write succeeding.
CallSendModbusCommand17 ==
    /\ call.pc = "ready" /\ call.req.op = 17
    /\ call' = [call EXCEPT !.pc = "done",
                  !.out = SendModbusCommand17(call.link_open, call.frames)]
    /\ UNCHANGED <<scanVars, monVars, wizVars, liveVars, codecVars, connVars>>

NextTransaction ==
    \/ CallWrite
    \/ CallReadHoldingRegisters
    \/ CallSendModbusCommand17

SpecTransaction == InitTransaction /\ [][NextTransaction]_vars

\* ------------------------------------------------------------------------
\* Frame codec, coil packing and identity decoder
\* (core/modbus_registers.py, core/device_response_parser_fixed.py)
\* ------------------------------------------------------------------------

\* Largest number of coils in one write_multiple_coils call of the model.
MaxCoils == 9

\* Largest number of payload bytes of a frame in the round trip.
MaxPayload == 2

\* Python's ^ and | on non-negative integers.
BitXor[a \in Nat, b \in Nat] ==
    IF a = 0 THEN b
    ELSE IF b = 0 THEN a
    ELSE ((a + b) % 2) + 2 * BitXor[a \div 2, b \div 2]

BitOr[a \in Nat, b \in Nat] ==
    IF a = 0 THEN b
    ELSE IF b = 0 THEN a
    ELSE (IF a % 2 = 1 \/ b % 2 = 1 THEN 1 ELSE 0) + 2 * BitOr[a \div 2, b \div 2]

Polynomial == 40961

\* The inner loop of _calculate_crc16: n more passes over crc.
ShiftBits[crc \in Nat, n \in Nat] ==
    IF n = 0 THEN crc
    ELSE IF crc % 2 = 1
         THEN ShiftBits[BitXor[crc \div 2, Polynomial], n - 1]
         ELSE ShiftBits[crc \div 2, n - 1]

\* The outer loop of _calculate_crc16 from the value seed: crc[i] is the
\* value after byte i.
CrcOver(seed, data) ==
    LET crc[i \in 0..Len(data)] ==
            IF i = 0 THEN seed ELSE ShiftBits[BitXor[crc[i - 1], data[i]], 8]
    IN  crc[Len(data)]

\* _calculate_crc16 starting from 0.
CalculateCrc16_ZeroSeed(data) == CrcOver(0, data)

CalculateCrc16(data) == CrcOver(65535, data)

\* The request with the CRC appended high byte first.
WithCrc_HighByteFirst(request) ==
    request \o <<(CalculateCrc16(request) \div 256) % 256, CalculateCrc16(request) % 256>>

\* request.extend([crc & 0xFF, (crc >> 8) & 0xFF])
WithCrc(request) ==
    request \o <<CalculateCrc16(request) % 256, (CalculateCrc16(request) \div 256) % 256>>

\* bytearray([...]) raises ValueError unless every element is in range(256);
\* the callers catch it and nothing is written to the link.
IsBytes(xs) == \A i \in 1..Len(xs) : xs[i] \in 0..255

NoFrame == <<>>

\* The addresses a caller hands to ModbusRTUClient, which stores them as
\* they are.
CallerAddresses == {0, 1, DeviceAddress, 247, 248, 256}

\* The frame _read_registers_with_function writes to an open link.
ReadRequest(device_address, function_code, start_address, count) ==
    LET request == <<device_address, function_code, Hi(start_address), Lo(start_address),
                     Hi(count), Lo(count)>>
    IN  IF IsBytes(request) THEN WithCrc(request) ELSE NoFrame

\* bit_index = i % 8, from the most significant bit down.
BitIndex_MsbFirst(i) == 7 - (i % 8)

BitIndex(i) == i % 8

\* The loop over enumerate(values) from index i on.
RECURSIVE PackCoils(_, _, _)
PackCoils(values, i, coil_bytes) ==
    IF i >= Len(values) THEN coil_bytes
    ELSE PackCoils(values, i + 1,
                   IF values[i + 1]
                   THEN [coil_bytes EXCEPT ![(i \div 8) + 1] = BitOr[@, 2^BitIndex(i)]]
                   ELSE coil_bytes)

\* The frame write_multiple_coils writes to an open link.
WriteMultipleCoilsRequest(device_address, start_address, values) ==
    LET count == Len(values)
        byte_count == (count + 7) \div 8
        request == <<device_address, 15, Hi(start_address), Lo(start_address),
                     Hi(count), Lo(count), byte_count>>
    IN  IF values = <<>> \/ ~IsBytes(request)
        THEN NoFrame
        ELSE WithCrc(request \o PackCoils(values, 0, [k \in 1..byte_count |-> 0]))

Rejected(status) == [status |-> status, address |-> -1, function |-> -1, payload |-> <<>>]

\* The checks _read_registers_with_function makes on a response before it
\* interprets the function code, and the fields it goes on with.
Receive(response, device_address) ==
    LET n == Len(response)
    IN  IF n = 0 THEN Rejected("NoResponse")
        ELSE IF n < 5 THEN Rejected("ShortResponse")
        ELSE IF BitOr[response[n - 1], response[n] * 256]
                    # CalculateCrc16(SubSeq(response, 1, n - 2))
             THEN Rejected("CrcMismatch")
        ELSE IF response[1] # device_address THEN Rejected("WrongAddress")
        ELSE [status |-> "Ok", address |-> response[1], function |-> response[2],
              payload |-> SubSeq(response, 3, n - 2)]

\* The bytes a frame is built of in the round trip.
FrameBytes == {0, 1, 165, 255}

Payloads == UNION {[1..n -> FrameBytes] : n \in 0..MaxPayload}

\* bytes.hex() and f"{b:02X}".
LowerHex == <<"0", "1", "2", "3", "4", "5", "6", "7", "8", "9", "a", "b", "c", "d", "e", "f">>

UpperHex == <<"0", "1", "2", "3", "4", "5", "6", "7", "8", "9", "A", "B", "C", "D", "E", "F">>

\* response.hex(), the raw_response entry handed to the parser.
RECURSIVE Hex(_)
Hex(bytes) ==
    IF bytes = <<>> THEN <<>>
    ELSE <<LowerHex[(bytes[1] \div 16) + 1], LowerHex[(bytes[1] % 16) + 1]>> \o Hex(Tail(bytes))

\* " ".join(f"{b:02X}" for b in response), the hex_format entry.
RECURSIVE HexFormat(_)
HexFormat(bytes) ==
    IF bytes = <<>> THEN <<>>
    ELSE <<UpperHex[(bytes[1] \div 16) + 1], UpperHex[(bytes[1] % 16) + 1]>>
         \o (IF Len(bytes) > 1 THEN <<" ">> ELSE <<>>) \o HexFormat(Tail(bytes))

\* hex_response.replace(' ', '')
RECURSIVE StripSpaces(_)
StripSpaces(chars) ==
    IF chars = <<>> THEN <<>>
    ELSE (IF chars[1] = " " THEN <<>> ELSE <<chars[1]>>) \o StripSpaces(Tail(chars))

\* [hex_bytes[i:i+2] for i in range(0, len(hex_bytes), 2)]
ByteList(hex_bytes) ==
    [k \in 1..((Len(hex_bytes) + 1) \div 2) |->
        SubSeq(hex_bytes, 2 * k - 1, IF 2 * k <= Len(hex_bytes) THEN 2 * k ELSE 2 * k - 1)]

HexValue(c) == (CHOOSE i \in 1..16 : LowerHex[i] = c \/ UpperHex[i] = c) - 1

\* int(s, 16)
RECURSIVE IntOfHex(_)
IntOfHex(s) ==
    IF s = <<>> THEN 0
    ELSE (IntOfHex(SubSeq(s, 1, Len(s) - 1)) * 16) + HexValue(s[Len(s)])

\* ''.join(reversed(xs)) and ''.join(xs) of a slice of byte_list
RECURSIVE Joined(_)
Joined(xs) == IF xs = <<>> THEN <<>> ELSE xs[1] \o Joined(Tail(xs))

Reversed(xs) == [k \in 1..Len(xs) |-> xs[Len(xs) + 1 - k]]

\* f"{n}" and f"{n:02d}"
RECURSIVE Decimal(_)
Decimal(n) ==
    IF n < 10 THEN <<LowerHex[n + 1]>> ELSE Decimal(n \div 10) \o <<LowerHex[(n % 10) + 1]>>

TwoDigits(n) == IF n < 10 THEN <<"0">> \o Decimal(n) ELSE Decimal(n)

\* byte_list[a:b] with 0-based a, b
Slice(byte_list, a, b) == SubSeq(byte_list, a + 1, b)

\* f"V{major:02d}.{minor:02d}" of a two-byte slice
Version(two) == <<"V">> \o TwoDigits(IntOfHex(two[1])) \o <<".">> \o TwoDigits(IntOfHex(two[2]))

\* f"{di_count}/{do_count}/{ai_count}/{ao_count}"
IoCounts(four) ==
    Decimal(IntOfHex(four[1])) \o <<"/">> \o Decimal(IntOfHex(four[2])) \o <<"/">>
        \o Decimal(IntOfHex(four[3])) \o <<"/">> \o Decimal(IntOfHex(four[4]))

\* The entries of device_specific_data, each with the length of byte_list
\* from which its guard lets it be decoded.
FieldGuard ==
    [magic |-> 8, software |-> 10, hardware |-> 12, ver_status |-> 16, status |-> 20,
     io_counts |-> 24, product_id |-> 32]

FieldNames == DOMAIN FieldGuard

\* What each entry holds: the "value" of software, hardware and io_counts,
\* the integer of "reversed_hex" of magic, status and product_id, and
\* "decimal" of ver_status.
FieldValue(name, byte_list) ==
    CASE name = "magic" -> IntOfHex(Joined(Reversed(Slice(byte_list, 4, 8))))
      [] name = "software" -> Version(Slice(byte_list, 8, 10))
      [] name = "hardware" -> Version(Slice(byte_list, 10, 12))
      [] name = "ver_status" -> IntOfHex(Joined(Slice(byte_list, 12, 16)))
      [] name = "status" -> IntOfHex(Joined(Reversed(Slice(byte_list, 16, 20))))
      [] name = "io_counts" -> IoCounts(Slice(byte_list, 20, 24))
      [] name = "product_id" -> IntOfHex(Joined(Reversed(Slice(byte_list, 28, 32))))

\* parse_specific_device_response: the "error" entry, byte_count and the
\* entries of device_specific_data.
ParseSpecificDeviceResponse(hex_response) ==
    LET byte_list == ByteList(StripSpaces(hex_response))
    IN  IF Len(byte_list) < 32
        THEN [error |-> TRUE, byte_count |-> Len(byte_list), data |-> <<>>]
        ELSE [error |-> FALSE, byte_count |-> Len(byte_list),
              data |-> [name \in {f \in FieldNames : Len(byte_list) >= FieldGuard[f]}
                           |-> FieldValue(name, byte_list)]]

\* The identification response of the device documented in the parser.
ExampleResponse ==
    <<15, 17, 15, 255, 153, 135, 65, 119, 7, 0, 1, 1, 15, 0, 0, 0, 47, 72, 80, 79,
      0, 0, 32, 0, 0, 0, 0, 0, 251, 95, 25, 99, 25, 98, 177, 178, 235, 215>>

\* One application of a function of the codec: what it was applied to, the
\* frame it put on the link and what it returned.
InitCodec ==
    /\ InitScanIdle /\ InitMonitorsIdle /\ InitWizardIdle /\ InitUsbIdle
    /\ InitTransactionIdle
    /\ InitCodecIdle /\ InitConnectionIdle

\* _read_registers_with_function up to connection.write, the link open.
BuildReadRequest ==
    /\ codec = NoCodec
    /\ \E a \in CallerAddresses, fc \in {3, 4}, start \in {0, 258}, count \in {1, 10} :
         codec' = [op |-> "read",
                   input |-> [device_address |-> a, function_code |-> fc,
                              start_address |-> start, count |-> count],
                   sent |-> ReadRequest(a, fc, start, count),
                   out |-> <<>>]
    /\ UNCHANGED <<scanVars, monVars, wizVars, liveVars, txVars, connVars>>

\* write_multiple_coils up to connection.write, the link open.
BuildWriteMultipleCoils ==
    /\ codec = NoCodec
    /\ \E a \in {0, DeviceAddress}, start \in {0, 32}, n \in 0..MaxCoils :
         \E values \in [1..n -> BOOLEAN] :
           codec' = [op |-> "coils",
                     input |-> [device_address |-> a, start_address |-> start,
                                values |-> values],
                     sent |-> WriteMultipleCoilsRequest(a, start, values),
                     out |-> <<>>]
    /\ UNCHANGED <<scanVars, monVars, wizVars, liveVars, txVars, connVars>>

\* A frame built as the requests are built, handed to the checks of the
\* receiving side.
RoundTrip ==
    /\ codec = NoCodec
    /\ \E a \in {1, DeviceAddress, 247}, fc \in {3, 4, 17, 131}, payload \in Payloads :
         codec' = [op |-> "round_trip",
                   input |-> [address |-> a, function |-> fc, payload |-> payload],
                   sent |-> NoFrame,
                   out |-> Receive(WithCrc(<<a, fc>> \o payload), a)]
    /\ UNCHANGED <<scanVars, monVars, wizVars, liveVars, txVars, connVars>>

\* parse_specific_device_response on the first n bytes of the example, in
\* either of the two formats ModbusDeviceInfo produces.
ParseIdentification ==
    /\ codec = NoCodec
    /\ \E n \in 0..Len(ExampleResponse), spaced \in BOOLEAN :
         LET bytes == SubSeq(ExampleResponse, 1, n)
             hex_response == IF spaced THEN HexFormat(bytes) ELSE Hex(bytes)
         IN  codec' = [op |-> "parse",
                       input |-> [bytes |-> bytes, spaced |-> spaced],
                       sent |-> NoFrame,
                       out |-> ParseSpecificDeviceResponse(hex_response)]
    /\ UNCHANGED <<scanVars, monVars, wizVars, liveVars, txVars, connVars>>

NextCodec ==
    \/ BuildReadRequest
    \/ BuildWriteMultipleCoils
    \/ RoundTrip
    \/ ParseIdentification

SpecCodec == InitCodec /\ [][NextCodec]_vars

\* ------------------------------------------------------------------------
\* Connection handle and client: src/core/modbus_connection.py,
\* src/core/modbus_rtu_client.py
\* ------------------------------------------------------------------------

\* Largest number of client operations, and of disconnect calls, in one
\* session of the model.
MaxCalls == 2

\* ModbusConnection.STANDARD_BAUDRATES as set at import when config.json
\* has no baudrates_to_try (line 213).
STANDARD_BAUDRATES == <<115200, 57600, 38400, 19200, 9600>>

\* What serial.Serial(port, baudrate, ...) does at one speed: it returns an
\* open port, returns a port that is not open, or raises.
PortOutcomes == {"open", "not_open", "raise"}

\* The speed the device on the link listens at (0: no device answers).
DeviceSpeeds == {0} \cup {STANDARD_BAUDRATES[i] : i \in 1..Len(STANDARD_BAUDRATES)}

\* The result of a connect: success, the handle (self.connection), the
\* speed (0: None), the speeds tried and the identification commands sent.
ConnectResult(success, handle, baudrate, tried, probes) ==
    [success |-> success, handle |-> handle, baudrate |-> baudrate, tried |-> tried,
     probes |-> probes]

\* The loop of _auto_detect_baudrate from the i-th standard speed on: the
\* first speed at which the port opens is the result; nothing is written to
\* the port and nothing is read from it.
RECURSIVE AutoDetectFrom(_, _, _)
AutoDetectFrom(i, ports, tried) ==
    IF i > Len(STANDARD_BAUDRATES)
      THEN ConnectResult(FALSE, "None", 0, tried, <<>>)
    ELSE IF ports[i] = "open"
      THEN ConnectResult(TRUE, "open", STANDARD_BAUDRATES[i],
                         Append(tried, STANDARD_BAUDRATES[i]), <<>>)
    ELSE AutoDetectFrom(i + 1, ports, Append(tried, STANDARD_BAUDRATES[i]))

\* ModbusConnection._auto_detect_baudrate.
AutoDetectBaudrate(ports) == AutoDetectFrom(1, ports, <<>>)

SpeedIndexOf(b) == CHOOSE i \in 1..Len(STANDARD_BAUDRATES) : STANDARD_BAUDRATES[i] = b

\* ModbusConnection._connect_with_known_baudrate.
ConnectWithKnownBaudrate(ports, b) ==
    IF ports[SpeedIndexOf(b)] = "open"
      THEN ConnectResult(TRUE, "open", b, <<b>>, <<>>)
      ELSE ConnectResult(FALSE, "None", b, <<b>>, <<>>)

\* ModbusConnection.connect.
Connect(ports, b) ==
    IF b = 0 THEN AutoDetectBaudrate(ports) ELSE ConnectWithKnownBaudrate(ports, b)

\* disconnect keeping the handle when close() raised.
HandleAfterDisconnect_KeptOnError(handle, raised) == IF raised THEN handle ELSE "None"

\* ModbusConnection.disconnect: self.connection = None in the finally
\* clause, whatever close() did.
HandleAfterDisconnect(handle, raised) == "None"

\* The operations of ModbusRTUClient that use the link.
ClientOps == {"get_device_info", "read_holding_registers", "write_holding_registers",
              "write_single_register", "write_single_coil", "write_multiple_coils"}

\* What an operation returns when it fails.
Failure(op) == IF op \in {"get_device_info", "read_holding_registers"} THEN "None" ELSE "False"

\* The guard at the head of every client operation: self.connection.connection.
ClientHasLink(handle) == handle # "None"

\* A client for a port whose behaviour at each standard speed is given, with
\* the speed requested (0: None, to be detected).
InitConnection ==
    /\ InitScanIdle /\ InitMonitorsIdle /\ InitWizardIdle /\ InitUsbIdle
    /\ InitTransactionIdle /\ InitCodecIdle
    /\ \E ports \in [1..Len(STANDARD_BAUDRATES) -> PortOutcomes],
          d \in DeviceSpeeds, b \in {0, 9600} :
         conn = [NoConnection EXCEPT !.pc = "new", !.ports = ports, !.device_speed = d,
                                     !.requested = b, !.baudrate = b]

\* ModbusRTUClient.connect.
ClientConnect ==
    /\ conn.pc = "new"
    /\ LET r == Connect(conn.ports, conn.baudrate)
       IN  conn' = [conn EXCEPT !.pc = "connected", !.success = r.success,
                                !.handle = r.handle, !.baudrate = r.baudrate,
                                !.tried = r.tried, !.probes = r.probes]
    /\ UNCHANGED <<scanVars, monVars, wizVars, liveVars, txVars, codecVars>>

\* ModbusRTUClient.disconnect -> ModbusConnection.disconnect; close() may
\* raise.
ClientDisconnect ==
    /\ conn.pc = "connected"
    /\ conn.disconnects < MaxCalls
    /\ \E raised \in BOOLEAN :
         /\ raised => conn.handle # "None"
         /\ conn' = [conn EXCEPT
                       !.handle = HandleAfterDisconnect(conn.handle, raised),
                       !.disconnected = TRUE,
                       !.disconnects = @ + 1,
                       !.closes = IF conn.handle # "None" THEN @ + 1 ELSE @,
                       !.idleCloses = IF conn.disconnected /\ conn.handle # "None"
                                        THEN @ + 1 ELSE @,
                       !.closeRaised = @ \/ raised]
    /\ UNCHANGED <<scanVars, monVars, wizVars, liveVars, txVars, codecVars>>

\* One operation of ModbusRTUClient: without a handle it returns its failure
\* value at once; with one it hands the handle to ModbusRegisters or
\* ModbusDeviceInfo, whose transaction writes the request unless the port is
\* found closed, and succeeds or fails.
ClientCall ==
    /\ conn.pc = "connected"
    /\ conn.calls < MaxCalls
    /\ \E op \in ClientOps :
         IF ClientHasLink(conn.handle)
           THEN \E wrote \in BOOLEAN, ok \in BOOLEAN :
                  /\ ok => wrote
                  /\ conn' = [conn EXCEPT
                                !.calls = @ + 1,
                                !.writes = IF wrote THEN @ + 1 ELSE @,
                                !.last = [op |-> op,
                                          result |-> IF ok THEN "value" ELSE Failure(op),
                                          wrote |-> wrote, after |-> conn.disconnected]]
           ELSE conn' = [conn EXCEPT
                           !.calls = @ + 1,
                           !.last = [op |-> op, result |-> Failure(op), wrote |-> FALSE,
                                     after |-> conn.disconnected]]
    /\ UNCHANGED <<scanVars, monVars, wizVars, liveVars, txVars, codecVars>>

NextConnection ==
    \/ ClientConnect
    \/ ClientDisconnect
    \/ ClientCall

SpecConnection == InitConnection /\ [][NextConnection]_vars

\* The discovery scan on its own.
SpecScanInit ==
    InitScan /\ InitMonitorsIdle /\ InitWizardIdle /\ InitUsbIdle /\ InitTransactionIdle
    /\ InitCodecIdle /\ InitConnectionIdle


\* One monitor polling a connected worker; the GUI may stop the monitor and
\* the worker at any time.
InitMonitor ==
    /\ InitScanIdle
    /\ InitTransactionIdle /\ InitCodecIdle /\ InitConnectionIdle
    /\ \E fast_mode \in BOOLEAN :
         mon = [m \in Monitors |-> IF m = 1 THEN NewMonitor(fast_mode) ELSE NoMonitor]
    /\ wt = [exists |-> TRUE, is_connected |-> TRUE, pc |-> "running"]
    /\ InitWizardIdle
    /\ InitUsbIdle

NextMonitor ==
    \/ MonLoop(1)
    \/ MonWake(1)
    \/ MonProbeReturns(1, ProbeReplies)
    \/ MonStop(1)
    \/ WorkerStop

SpecMonitor == InitMonitor /\ [][NextMonitor]_vars

\* The wizard from the welcome step on: connection, monitoring and
\* configuration reads and writes, with a device that answers every
\* heartbeat (registers reads and writes may fail).
Init ==
    InitScanIdle /\ InitMonitorsIdle /\ InitWizardIdle /\ InitUsbIdle /\ InitTransactionIdle
    /\ InitCodecIdle /\ InitConnectionIdle

Next ==
    \/ GuiStep
    \/ WorkerRun
    \/ ConfigWorkerStep
    \/ \E m \in Monitors : MonLoop(m)
    \/ \E m \in Monitors : MonWake(m)
    \/ \E m \in Monitors : MonProbeReturns(m, {"info"})

Spec == Init /\ [][Next]_vars

\* Configuration writes from their two entry points, over a connection that
\* may drop at any moment: the wizard's configuration step with a loaded
\* configuration (ConfigWriteWorker), and the main window (ConfigManager).
InitConfigWrite ==
    /\ InitScanIdle /\ InitUsbIdle
    /\ InitTransactionIdle /\ InitCodecIdle /\ InitConnectionIdle
    /\ mon = [m \in Monitors |-> NoMonitor]
    /\ \E wizard \in BOOLEAN :
         gui = IF wizard
                 THEN [Gui0 EXCEPT !.current_step = 2, !.is_connected = TRUE,
                                   !.worker_thread = TRUE, !.step3_worker = TRUE,
                                   !.read_btn = TRUE, !.write_btn = TRUE,
                                   !.config_loaded = TRUE, !.loadedBy = "complete"]
                 ELSE Gui0
    /\ wt = [exists |-> TRUE, is_connected |-> TRUE, pc |-> "running"]
    /\ cfg = Cfg0

NextConfigWrite ==
    \/ WriteConfig
    \/ CfgWriteIssue
    \/ CfgWriteReturns
    \/ CfgWriteFinished
    \/ ManagerWriteStart
    \/ ManagerWriteIssue
    \/ ManagerWriteReturns
    \/ ManagerWriteEnd
    \/ WorkerStop

SpecConfigWrite == InitConfigWrite /\ [][NextConfigWrite]_vars

\* One connection with its monitoring session running, on the connection
\* step or on the configuration step after a write, until it is
\* disconnected: the two liveness sources, the handlers of their signals,
\* a pending restart of the monitor, and disconnect.
InitSession ==
    /\ InitScanIdle
    /\ InitTransactionIdle /\ InitCodecIdle /\ InitConnectionIdle
    /\ \E afterWrite \in BOOLEAN, udev \in BOOLEAN, pendingResume \in 0..1 :
         /\ mon = [m \in Monitors |->
                     IF m = 1 THEN NewMonitor(afterWrite) ELSE NoMonitor]
         /\ usb = [m \in Monitors |->
                     IF m = 1 THEN NewUsbMonitor(MonitoredPath, udev) ELSE NoUsbMonitor]
         /\ host = [ports |-> DevicePaths, udev |-> udev]
         /\ gui = [Gui0 EXCEPT !.current_step = IF afterWrite THEN 2 ELSE 1,
                                !.is_connected = TRUE, !.worker_thread = TRUE,
                                !.connection_monitor = 1,
                                !.step3_worker = afterWrite,
                                !.read_btn = afterWrite, !.write_btn = afterWrite,
                                !.config_loaded = afterWrite,
                                !.loadedBy = IF afterWrite THEN "complete" ELSE "none",
                                !.waiting_for_power_cycle = afterWrite,
                                !.power_cycle_timer = afterWrite,
                                !.resumeTimers = IF afterWrite THEN pendingResume ELSE 0]
    /\ wt = [exists |-> TRUE, is_connected |-> TRUE, pc |-> "running"]
    /\ cfg = Cfg0
    /\ sigq = <<>>

\* A probe cannot be answered while the device node is gone.
SessionReplies == IF MonitoredPath \in host.ports THEN ProbeReplies ELSE {"none", "raise"}

NextSession ==
    \/ \E m \in Monitors : MonLoop(m)
    \/ \E m \in Monitors : MonWake(m)
    \/ \E m \in Monitors : MonProbeReturns(m, SessionReplies)
    \/ \E m \in Monitors : UsbLoop(m)
    \/ \E m \in Monitors : UsbPoll(m)
    \/ \E m \in Monitors : UsbUdevEvent(m)
    \/ PortRemoved(MonitoredPath)
    \/ OnDevicePowerLost
    \/ OnUsbDeviceRemoved
    \/ OnDeviceReconnected
    \/ Disconnect
    \/ ResumeConnectionMonitor
    \/ OnPowerCycleTimeout

SpecSession == InitSession /\ [][NextSession]_vars

\* The handler of the signal at the head of the GUI thread's queue runs.
SignalDelivered == OnDevicePowerLost \/ OnUsbDeviceRemoved \/ OnDeviceReconnected

\* The session on the configuration step right after a successful write:
\* the fast monitor runs, the wizard waits for the power cycle and no read's
\* resume timer is pending.
InitPowerCycle ==
    /\ InitSession
    /\ gui.waiting_for_power_cycle
    /\ gui.resumeTimers = 0

NextPowerCycle ==
    \/ \E m \in Monitors : MonLoop(m)
    \/ \E m \in Monitors : MonWake(m)
    \/ \E m \in Monitors : MonProbeReturns(m, SessionReplies)
    \/ \E m \in Monitors : UsbLoop(m)
    \/ \E m \in Monitors : UsbPoll(m)
    \/ \E m \in Monitors : UsbUdevEvent(m)
    \/ PortRemoved(MonitoredPath)
    \/ OnDevicePowerLost
    \/ OnUsbDeviceRemoved
    \/ OnDeviceReconnected
    \/ Disconnect
    \/ OnPowerCycleTimeout

SpecPowerCycle == InitPowerCycle /\ [][NextPowerCycle]_vars

\* The GUI thread's event loop delivers every queued signal and fires every
\* single-shot timer that is not stopped first.
FairSpecPowerCycle ==
    /\ SpecPowerCycle
    /\ WF_vars(SignalDelivered)
    /\ WF_vars(Disconnect)
    /\ WF_vars(OnPowerCycleTimeout)

\* The hardware-presence source of one connection: serial device nodes come
\* and go, the USBMonitor reports, the GUI handles the report and
\* disconnects.  The heartbeat monitor of the connection sleeps, with none
\* or one failed check counted so far.
InitUsb ==
    /\ InitScanIdle
    /\ InitTransactionIdle /\ InitCodecIdle /\ InitConnectionIdle
    /\ \E fast_mode \in BOOLEAN, udev \in BOOLEAN, failed \in 0..1 :
         /\ mon = [m \in Monitors |->
                     IF m = 1 THEN [NewMonitor(fast_mode) EXCEPT !.pc = "sleep",
                                                                 !.consecutive_failures = failed,
                                                                 !.failStreak = failed]
                              ELSE NoMonitor]
         /\ usb = [m \in Monitors |->
                     IF m = 1 THEN NewUsbMonitor(MonitoredPath, udev) ELSE NoUsbMonitor]
         /\ host = [ports |-> DevicePaths, udev |-> udev]
         /\ gui = [Gui0 EXCEPT !.current_step = IF fast_mode THEN 2 ELSE 1,
                                !.is_connected = TRUE, !.worker_thread = TRUE,
                                !.connection_monitor = 1,
                                !.step3_worker = fast_mode,
                                !.read_btn = fast_mode, !.write_btn = fast_mode,
                                !.config_loaded = fast_mode,
                                !.loadedBy = IF fast_mode THEN "complete" ELSE "none",
                                !.waiting_for_power_cycle = fast_mode,
                                !.power_cycle_timer = fast_mode]
    /\ wt = [exists |-> TRUE, is_connected |-> TRUE, pc |-> "running"]
    /\ cfg = Cfg0
    /\ sigq = <<>>

NextUsb ==
    \/ \E m \in Monitors : UsbLoop(m)
    \/ \E m \in Monitors : UsbPoll(m)
    \/ \E m \in Monitors : UsbUdevEvent(m)
    \/ \E p \in DevicePaths : PortRemoved(p)
    \/ \E p \in DevicePaths : PortAdded(p)
    \/ OnUsbDeviceRemoved
    \/ Disconnect

SpecUsb == InitUsb /\ [][NextUsb]_vars

\* The discovery scan with the connection attempt that follows a found
\* device.
NextScan ==
    \/ StartAutoSearch
    \/ ScanThread
    \/ SearchStop
    \/ StopSearchReturns
    \/ QueuedReportDiscarded
    \/ OnSearchComplete
    \/ WorkerRun
    \/ OnConnected
    \/ CheckConnectionTimeout

SpecScan == SpecScanInit /\ [][NextScan]_vars

\* The worker is a running thread: its steps are taken as long as it has one.
FairSpecScan == SpecScan /\ WF_vars(ScanThread)

\* ------------------------------------------------------------------------
\* Properties of the discovery scan
\* ------------------------------------------------------------------------

ScanDone == scanPc = "done"

\* C7: if cancellation is requested while a scan is running, the scan starts
\* no transaction on the link after the request (neither a probe nor any
\* other exchange) and ends as Cancelled.
C7_CancelEndsScan ==
    scanLog.stopAt \in {"addr", "baud", "probing", "info"} =>
        /\ scanLog.txAfterStop = 0
        /\ ScanDone => outcome = "Cancelled"

DocumentedSpeeds == <<115200, 57600, 38400, 19200, 9600>>

\* C8: probes are issued in address-major order: the k-th probe of a run is
\* at address ((k-1) div 5) + 1 and at the ((k-1) mod 5) + 1-th speed of
\* 115200, 57600, 38400, 19200, 9600; with a responder only at (7, 38400) an
\* uncancelled scan reports exactly that pair after 6 * 5 + 3 = 33 probes.
C8_AddressMajorOrder ==
    /\ probeCount > 0 =>
           lastProbe = <<((probeCount - 1) \div 5) + 1,
                         DocumentedSpeeds[((probeCount - 1) % 5) + 1]>>
    /\ (device = <<7, 38400>> /\ ScanDone /\ scanLog.stopAt = "none" /\ scannerLoad = "ok") =>
           /\ outcome = "Found"
           /\ found_device.address = 7
           /\ found_device.baudrate = 38400
           /\ probeCount = 33
           /\ scanLog.successAt = <<7, 38400>>

C8_Witness ==
    /\ device = <<7, 38400>>
    /\ ScanDone
    /\ outcome = "Found"
    /\ probeCount = 33
    /\ lastProbe = <<7, 38400>>

\* C9 (as stated): when a probe first succeeds the scan issues no further
\* transaction on the link and reports Found with the address, the speed and
\* the raw response of that probe.
C9_StopsAndReportsProbeResponse ==
    scanLog.successAt # NoDevice =>
        /\ scanLog.probesAfterSuccess = 0
        /\ Len(scanLog.infoTx) = 0
        /\ ScanDone =>
              /\ outcome = "Found"
              /\ found_device = [address |-> scanLog.successAt[1],
                                 baudrate |-> scanLog.successAt[2],
                                 device_info |-> probeResult]

\* C9 (amended): when a probe first succeeds the scan issues no further
\* probe; it issues at most one follow-up identification transaction, at the
\* address and speed of that probe, and reports Found exactly once with that
\* address, that speed and the result of the follow-up read (None when the
\* follow-up connect or read failed), not the probe's raw response.
C9_StopsProbingAndReportsFollowUp ==
    scanLog.successAt # NoDevice =>
        /\ scanLog.successAt = lastProbe
        /\ scanLog.probesAfterSuccess = 0
        /\ Len(scanLog.infoTx) <= 1
        /\ \A i \in 1..Len(scanLog.infoTx) : scanLog.infoTx[i] = scanLog.successAt
        /\ ScanDone =>
              /\ outcome = "Found"
              /\ scanLog.foundCount = 1
              /\ found_device = [address |-> scanLog.successAt[1],
                                 baudrate |-> scanLog.successAt[2],
                                 device_info |-> scanLog.infoResult]

C9_Witness ==
    /\ ScanDone
    /\ outcome = "Found"
    /\ scanLog.successAt = <<2, 9600>>
    /\ Len(scanLog.infoTx) = 1
    /\ found_device.device_info = <<"device_info", 2, 9600>>

\* C10 (as stated): a finished run has emitted exactly one completion report,
\* which is Found, Exhausted or Cancelled, and it is Found iff a probe
\* succeeded.
C10_ThreeOutcomes ==
    ScanDone =>
        /\ scanLog.completeCount = 1
        /\ outcome \in {"Found", "Exhausted", "Cancelled"}
        /\ (outcome = "Found") <=> (scanLog.successAt # NoDevice)

C10_Safety ==
    /\ scanLog.completeCount <= 1
    /\ ~ScanDone => scanLog.completeCount = 0 /\ outcome = "none"
    /\ ScanDone =>
        /\ scanLog.completeCount = 1
        /\ outcome \in {"Found", "Exhausted", "Cancelled", "Unavailable", "Error"}
        /\ (outcome = "Found") <=> (scanLog.successAt # NoDevice)
        /\ (outcome \in {"Unavailable", "Error"}) <=> (scanLog.errorCount = 1)

\* C10 (amended): every started run terminates and emits exactly one
\* completion report, which is Found, Exhausted, Cancelled or a failure
\* report (scanner unavailable, or an error raised in the run; a failure
\* report is exactly one that comes with error_occurred); Found is reported
\* iff a probe succeeded.
C10_TerminatesWithOneReport ==
    /\ []C10_Safety
    /\ (scanPc = "init") ~> ScanDone

C10_Witness ==
    /\ ScanDone
    /\ outcome = "Exhausted"
    /\ probeCount = MAX_ADDRESS * Len(SEARCH_BAUDRATES)
    /\ scanLog.completeCount = 1

SpeedIndex(b) == CHOOSE i \in 1..Len(SEARCH_BAUDRATES) : SEARCH_BAUDRATES[i] = b

NextCombination(c) ==
    IF SpeedIndex(c[2]) = Len(SEARCH_BAUDRATES)
    THEN <<c[1] + 1, SEARCH_BAUDRATES[1]>>
    ELSE <<c[1], SEARCH_BAUDRATES[SpeedIndex(c[2]) + 1]>>

\* C22: a probe that gets no answer, or whose scanner call raises an error,
\* does not end the scan: the worker goes on to the next speed of the
\* address with no report made, and the probe issued after any probe is at
\* the next (address, speed) combination.
C22_FailedProbeAdvances ==
    [][/\ (scanPc = "probing" /\ scanPc' # "probing" /\ device # lastProbe)
            => /\ scanPc' = "baud"
               /\ outcome' = "none"
               /\ address' = address
               /\ baudIdx' = baudIdx + 1
       /\ (probeCount' = probeCount + 1 /\ probeCount > 0)
            => lastProbe' = NextCombination(lastProbe)]_vars

\* The scanner call raised at (1, 57600) and the scan has probed (1, 38400).
C22_Witness ==
    /\ scanFault = <<1, 57600>>
    /\ device = NoDevice
    /\ lastProbe = <<1, 38400>>
    /\ outcome = "none"

\* C23 (as stated): progress is reported once per address, after the address
\* has been probed at all speeds, and never once per probe.
C23_ProgressAfterEachAddress ==
    /\ scanLog.addressReports * Len(SEARCH_BAUDRATES) <= probeCount
    /\ scanLog.probeReports = 0

\* C23 (amended): progress is reported once per address, before the address
\* is probed at any speed, and never once per probe.
C23_ProgressBeforeEachAddress ==
    /\ scanLog.probeReports = 0
    /\ scanPc \in {"baud", "probing", "info"}
           => scanLog.addressReports = address - MIN_ADDRESS + 1
    /\ scanPc = "addr" => scanLog.addressReports = address - MIN_ADDRESS
    /\ probeCount <= scanLog.addressReports * Len(SEARCH_BAUDRATES)
    /\ probeCount > 0 => scanLog.addressReports \in {lastProbe[1], lastProbe[1] + 1}

\* Address 2 has been reported and its first probe is in progress, after a
\* probe at address 1 raised an error.
C23_Witness ==
    /\ scanPc = "probing"
    /\ scanFault = <<1, 57600>>
    /\ lastProbe = <<2, 115200>>
    /\ scanLog.addressReports = 2
    /\ probeCount = 6

\* C24: the link is held only during a probe and during the follow-up
\* identification read; it is closed whenever the scan has reported its
\* outcome, and when the connection worker exists the scan has ended and
\* does not hold the link.
C24_LinkHeldForOneTransaction ==
    /\ scanLog.link # "closed" => scanPc \in {"probing", "info"}
    /\ scanPc = "probing" => scanLog.link = "scanner"
    /\ scanPc = "info" => scanLog.link = "client"
    /\ outcome # "none" => scanLog.link = "closed"
    /\ wt.exists => (scanLog.link = "closed" /\ ScanDone /\ outcome = "Found")

\* The device answered the probe but not the identification read, and the
\* connection worker has been created for it.
C24_Witness ==
    /\ wt.exists
    /\ outcome = "Found"
    /\ infoReply = "no_reply"
    /\ Len(scanLog.infoTx) = 1
    /\ scanLog.link = "closed"

\* C31: once stop_search has returned, no connection worker is created for
\* the cancelled search, also when the probe in flight at the stop request
\* succeeded.
C31_NoConnectAfterCancel ==
    scanLog.stopped => (~wt.exists /\ ~gui.worker_thread)

\* ------------------------------------------------------------------------
\* Properties of the heartbeat monitor
\* ------------------------------------------------------------------------

\* C3: once stop has been requested on a monitor, that monitor starts no
\* further identification probe.
C3_NoProbeAfterStop ==
    [][\A m \in Monitors :
         (mon[m].should_stop /\ mon[m].pc # "probe") => mon'[m].pc # "probe"]_vars

\* C5: in a run of consecutive failed probes the heartbeat source emits Lost
\* exactly once, at the N-th failure, and not again for later failures.
C5_OneLostPerStreak ==
    \A m \in Monitors :
        /\ mon[m].lostInStreak <= 1
        /\ mon[m].failStreak >= MaxFailures(mon[m].fast_mode) => mon[m].lostInStreak = 1

\* C6: Lost is never emitted while fewer than N consecutive checks have
\* failed since the monitor started or since the last successful probe,
\* N = 2 in fast mode and 3 otherwise.
C6_NoLostBelowThreshold ==
    \A m \in Monitors :
        /\ mon[m].lostInStreak > 0 => mon[m].failStreak >= (IF mon[m].fast_mode THEN 2 ELSE 3)
        /\ ~mon[m].is_connected => mon[m].lostInStreak > 0

C6_Witness ==
    /\ mon[1].lostInStreak = 1
    /\ ~mon[1].fast_mode
    /\ mon[1].failStreak = 3

\* C14: the heartbeat source emits Reconnected exactly when a probe succeeds
\* while the monitor's state is Lost, and every successful probe resets the
\* consecutive-failure counter to zero.  (A check that returns succeeded iff
\* it left no failed check in the streak.)
C14_ReconnectedIffSuccessWhileLost ==
    [][\A m \in Monitors :
         (mon[m].pc \in {"sleep", "probe"} /\ mon'[m].pc = "loop") =>
            LET succeeded == mon[m].pc = "probe" /\ mon'[m].failStreak = 0
                reconnected == Len(sigq') > Len(sigq)
                                 /\ sigq'[Len(sigq')].sig = "device_reconnected"
            IN /\ reconnected <=> (succeeded /\ ~mon[m].is_connected)
               /\ succeeded => mon'[m].consecutive_failures = 0 /\ mon'[m].is_connected]_vars

C14_Witness ==
    /\ mon[1].reconnects = 1
    /\ mon[1].is_connected
    /\ mon[1].consecutive_failures = 0
    /\ Len(sigq) = 2
    /\ sigq[1].sig = "device_disconnected"
    /\ sigq[2].sig = "device_reconnected"

\* ------------------------------------------------------------------------
\* Properties of the combined liveness signal
\* ------------------------------------------------------------------------

LostHasBeenHandled == Len(gui.lostActed) > 0

Running(r) == r.pc \notin {"unused", "exit"}

\* C11: once a Lost of either source has been handled, the monitors of the
\* connection are stopped, they issue no further probe and emit no further
\* Lost or Reconnected, and no new monitor is started on that connection.
C11_LostEndsSession ==
    [][LostHasBeenHandled =>
          /\ \A m \in Monitors :
                /\ Running(mon'[m]) => mon'[m].should_stop
                /\ Running(usb'[m]) => usb'[m].should_stop
                /\ mon[m].pc # "probe" => mon'[m].pc # "probe"
                /\ ~Running(mon[m]) => ~Running(mon'[m])
          /\ Len(sigq') <= Len(sigq)]_vars

\* The un-stopped USBMonitor m reads a removal of node p in this step.
ReadsRemoval(m, p) ==
    \/ /\ usb[m].pc = "wait" /\ usb'[m].pc = "wait"
       /\ usb[m].events # <<>> /\ usb'[m].events = Tail(usb[m].events)
       /\ Head(usb[m].events) = [node |-> p, action |-> "remove"]
    \/ /\ usb[m].pc = "sleep" /\ usb'[m].pc = "loop"
       /\ p \in usb[m].known_ports \ host.ports

\* C12: a removal of the monitored device node read by the USBMonitor is
\* reported at once, whatever the heartbeat counter, and its handler acts on
\* it (monitors stopped, disconnect scheduled); no report is ever made for
\* another node.
C12_RemovalOfMonitoredPathOnly ==
    [][ /\ \A m \in Monitors :
              ReadsRemoval(m, MonitoredPath) =>
                  sigq' = Append(sigq, Signal("device_removed", MonitoredPath))
        /\ \A i \in 1..Len(sigq') :
              sigq'[i].sig = "device_removed" => sigq'[i].path = MonitoredPath
        /\ (sigq # <<>> /\ Head(sigq).sig = "device_removed" /\ sigq' = Tail(sigq)) =>
              /\ gui'.lostActed = Append(gui.lostActed, "device_removed")
              /\ gui'.disconnectTimers = gui.disconnectTimers + 1
              /\ gui'.connection_monitor = 0
              /\ \A m \in Monitors : Running(usb'[m]) => usb'[m].should_stop ]_vars

C12_Witness ==
    /\ gui.lostActed = <<"device_removed">>
    /\ OtherPath \notin host.ports
    /\ MonitoredPath \notin host.ports
    /\ mon[1].consecutive_failures = 0
    /\ mon[1].should_stop

\* C13: at most one Lost is acted upon per connection, whichever source
\* raised it first.
C13_FirstLostWins == Len(gui.lostActed) <= 1

\* ------------------------------------------------------------------------
\* Properties of the wizard
\* ------------------------------------------------------------------------

\* The consumers that have a transaction in flight on the serial link.
InFlight ==
    {<<"monitor", m>> : m \in {k \in Monitors : mon[k].pc = "probe"}}
        \cup (IF cfg.pc = "tx" THEN {<<"worker", cfg.kind>>} ELSE {})
        \cup (IF scanPc \in {"probing", "info"} THEN {<<"scan", 0>>} ELSE {})

\* C1: at every instant at most one transaction is in flight on the link.
C1_OneTransactionInFlight == Cardinality(InFlight) <= 1

\* The configuration worker has been started and has not yet reported
\* finished or error.
OperationRunning == cfg.kind # "none" /\ cfg.pc # "emitted"

\* C2: a configuration operation starts with the monitor stopped, and no
\* monitor is started until the operation's worker has reported.
C2_NoMonitorStartDuringOperation ==
    [][ /\ (~OperationRunning /\ OperationRunning') =>
              (gui'.connection_monitor = 0 /\
               \A m \in Monitors : mon'[m].pc \notin {"unused", "exit"} => mon'[m].should_stop)
        /\ (OperationRunning /\ OperationRunning') =>
              \A m \in Monitors :
                  mon[m].pc \in {"unused", "exit"} => mon'[m].pc \in {"unused", "exit"} ]_vars

\* C4: finished(True) is emitted, and the user told the configuration was
\* written, only if every write of the operation got a verified response.
C4_SuccessOnlyIfAllWritesVerified ==
    /\ (cfg.kind = "write" /\ cfg.signal = "finished_true") => cfg.unverified = 0
    /\ ~gui.writtenWithFailures

ReadReported == cfg.kind = "read" /\ cfg.pc = "emitted"

\* C32: finished is reported, and the configuration marked as loaded, only
\* for a read in which every register group was read and validated; after
\* three failed attempts the read is reported as an error.
C32_LoadedOnlyAfterCompleteRead ==
    /\ (ReadReported /\ cfg.signal = "finished") => cfg.read_success
    /\ (ReadReported /\ cfg.attempt = MaxRetries /\ ~cfg.read_success) => cfg.signal = "error"
    /\ gui.config_loaded => gui.loadedBy = "complete"

\* A Lost signal of either source is handled in this step.
LostHandledNow == Len(gui'.lostActed) = Len(gui.lostActed) + 1

\* C34: if Lost is reported by either liveness source while the wizard is on
\* the configuration step and waiting for a power cycle, the wizard takes
\* the planned power-cycle path (connection step, notice that power can be
\* switched on) and not the unexpected-disconnect path.
C34_PlannedPathOnLost ==
    [][(gui.current_step = 2 /\ gui.waiting_for_power_cycle /\ LostHandledNow)
         => (gui'.current_step = 1 /\ gui'.notice = "power_on")]_vars

LostSignals == {"device_disconnected", "device_removed"}

\* On the configuration step a Lost signal waits for its handler, or a
\* handler has scheduled disconnect.
LostOrClosedOnConfigStep ==
    /\ gui.current_step = 2
    /\ \/ \E i \in 1..Len(sigq) : sigq[i].sig \in LostSignals
       \/ gui.disconnectTimers > 0

ConfigStepReset == ~gui.config_loaded /\ ~gui.read_btn /\ ~gui.write_btn

\* C35: whenever the connection is lost or closed while the wizard is on the
\* configuration step, the wizard eventually is on the connection step
\* (index 1) with the configuration step reset.
C35_LostLeadsToConnectionStep ==
    LostOrClosedOnConfigStep ~> (gui.current_step = 1 /\ ConfigStepReset)

\* A Lost outside a power-cycle wait was handled on the configuration step
\* and disconnect has brought the wizard back to the connection step.
C35_Witness ==
    /\ gui.lostActed # <<>>
    /\ gui.notice = "lost"
    /\ gui.current_step = 1
    /\ ConfigStepReset

\* C36: once a successful write has set the waiting-for-power-cycle flag,
\* the flag is eventually cleared: by a Lost, by a Reconnected or, at the
\* latest, by the 60-second timer, which runs for as long as the flag is set.
C36_FlagEventuallyCleared ==
    /\ [](gui.waiting_for_power_cycle => gui.power_cycle_timer)
    /\ gui.waiting_for_power_cycle ~> ~gui.waiting_for_power_cycle

\* No Lost and no Reconnected came: the timer cleared the flag and the
\* wizard is still on the configuration step.
C36_Witness ==
    /\ gui.clearedBy = "timeout"
    /\ ~gui.waiting_for_power_cycle
    /\ gui.current_step = 2
    /\ gui.lostActed = <<>>

\* C37: if the connection worker has not reported a result when the
\* 5-second timer of the connection attempt fires, the connection step
\* reports a connection timeout and is idle (not connecting, not connected).
C37_TimeoutReported ==
    [][(gui'.connectTimers = gui.connectTimers - 1 /\ wt.pc = "starting")
         => (gui'.timeoutReported /\ ~gui'.is_connecting /\ ~gui'.is_connected)]_vars

\* C33: in every configuration write, the write of the Modbus address
\* register (register 6) is the last write transaction issued: once it has
\* been issued, no other write follows it.
C33_AddressWrittenLast ==
    \A i \in 1..Len(cfg.issued) : cfg.issued[i] = 6 => i = Len(cfg.issued)

\* ------------------------------------------------------------------------
\* Properties of the Modbus transactions
\* ------------------------------------------------------------------------

\* An operation with one of the function codes has returned.
Returned(ops) == call.pc = "done" /\ call.req.op \in ops

\* A write operation has returned after sending its request.
WriteReturned == Returned(WriteOps) /\ call.out.sent # <<>>

\* An exception response to a request: from the addressed device, with a
\* valid CRC, the function code of the request with the high bit set, and
\* the exception code.
ExceptionFrame(f, req, code) ==
    /\ f.crc_ok /\ Len(f.bytes) >= 5
    /\ f.bytes[1] = DeviceAddress
    /\ f.bytes[2] = req.op + 128
    /\ f.bytes[3] = code

\* C15: a write response whose function byte is the requested code with the
\* high bit set, followed by exception byte 0x02, is classified as
\* ExceptionResponse(2) and the write is reported failed.
C15_ExceptionTwoClassified ==
    (WriteReturned /\ ExceptionFrame(call.frames[1], call.req, 2))
        => /\ call.out.class = Class("ExceptionResponse", 2)
           /\ ~call.out.result

\* C16: for each of the four write operations a response that is absent,
\* too short, fails the CRC check, or carries a different address or function
\* byte makes the operation return failure, and what is reported is the
\* first check that fails in the order length, CRC, address, function.
C16_WriteChecksInOrder ==
    WriteReturned =>
        LET f == call.frames[1]
            b == f.bytes
            long == Len(b) >= 8
        IN  /\ Len(b) = 0 => call.out.class.kind = "NoResponse"
            /\ Len(b) \in 1..7 => call.out.class.kind = "ShortResponse"
            /\ (long /\ ~f.crc_ok) => call.out.class.kind = "CrcMismatch"
            /\ (long /\ f.crc_ok /\ b[1] # DeviceAddress)
                   => call.out.class.kind = "AddressMismatch"
            /\ (long /\ f.crc_ok /\ b[1] = DeviceAddress /\ b[2] # call.req.op)
                   => call.out.class.kind \in {"ExceptionResponse", "UnexpectedFunction"}
            /\ (~long \/ ~f.crc_ok \/ b[1] # DeviceAddress \/ b[2] # call.req.op)
                   => ~call.out.result

\* A write has rejected a response of fewer than eight bytes, with a
\* damaged CRC and from another device, as too short.
C16_Witness ==
    /\ WriteReturned
    /\ Len(call.frames[1].bytes) \in 1..7
    /\ ~call.frames[1].crc_ok
    /\ call.frames[1].bytes[1] # DeviceAddress
    /\ call.out.class.kind = "ShortResponse"
    /\ ~call.out.result

\* C17 (as stated): one 0x03 transaction, and a 0x04 transaction for the same
\* range exactly when the 0x03 attempt failed (returned None).
C17_FallbackIffFailed ==
    Returned({3}) =>
        LET sent == call.out.sent
        IN  /\ Len(sent) \in 1..2
            /\ sent[1] = Sent(3, call.req.start, call.req.count)
            /\ Len(sent) = 2 <=> call.out.attempts[1].none
            /\ Len(sent) = 2 => sent[2] = Sent(4, call.req.start, call.req.count)

\* C17 (amended): on an open link read_holding_registers issues one 0x03 transaction
\* and, exactly when that attempt returned no register (None or an empty
\* list), one 0x04 transaction for the same start address and count, never
\* more than two; on a closed link it issues none.
C17_FallbackIffNoRegisters ==
    Returned({3}) =>
        LET sent == call.out.sent
        IN  IF ~call.link_open THEN sent = <<>>
            ELSE /\ Len(sent) \in 1..2
                 /\ sent[1] = Sent(3, call.req.start, call.req.count)
                 /\ Len(sent) = 2 <=> ~Truthy(call.out.attempts[1])
                 /\ Len(sent) = 2 => sent[2] = Sent(4, call.req.start, call.req.count)

\* The 0x03 response failed the CRC check, the attempt returned an empty
\* list, and the 0x04 transaction was issued and returned registers.
C17_Witness ==
    /\ Returned({3})
    /\ call.out.attempts[1] = Registers(<<>>)
    /\ ~call.frames[1].crc_ok
    /\ Len(call.out.sent) = 2
    /\ Truthy(call.out.result)

\* A response that reaches the CRC check of a read and fails it.
CrcFails(f) == Len(f.bytes) >= 5 /\ ~f.crc_ok

\* C18 (as stated): when the response to a transaction of the read fails the
\* CRC check, the caller gets an empty register list.
C18_CrcFailureGivesEmptyList ==
    Returned({3}) =>
        \A i \in 1..Len(call.out.sent) :
            CrcFails(call.frames[i]) => call.out.result = Registers(<<>>)

\* C18 (amended): a transaction whose response fails the CRC check yields an empty
\* list, not None; after a 0x03 transaction that is followed by the 0x04
\* transaction, whose result the caller gets, so the caller gets the empty
\* list when the response to the last transaction fails the CRC check.
C18_CrcFailureOfLastGivesEmptyList ==
    Returned({3}) =>
        \A i \in 1..Len(call.out.sent) :
            CrcFails(call.frames[i]) =>
                /\ call.out.attempts[i] = Registers(<<>>)
                /\ Len(call.out.sent) = 2
                /\ call.out.result = call.out.attempts[2]
                /\ i = 2 => call.out.result = Registers(<<>>)

\* The 0x03 response was accepted without registers (byte count 0), the
\* 0x04 response failed the CRC check and the caller got the empty list.
C18_Witness ==
    /\ Returned({3})
    /\ Len(call.out.sent) = 2
    /\ call.frames[1].crc_ok
    /\ CrcFails(call.frames[2])
    /\ call.out.result = Registers(<<>>)

\* C19: one identification transaction writes its request once and reads
\* the link at most three times, the extra reads only after a CRC mismatch
\* of the first response; it fails when no extra read has a valid CRC, and
\* a response accepted on a retry has the address of the device and the
\* function code 0x11.
C19_OneWriteThreeReads ==
    Returned({17}) =>
        LET o == call.out
            fs == call.frames
            valid(k) == Len(fs[k].bytes) >= 2 /\ fs[k].crc_ok
        IN  /\ o.writes = 1
            /\ o.reads <= 3
            /\ o.reads > 1 => (Len(fs[1].bytes) >= 7 /\ ~fs[1].crc_ok)
            /\ (o.reads > 1 /\ ~valid(2) /\ ~valid(3)) => ~o.data
            /\ o.data => /\ o.accepted = o.reads
                         /\ valid(o.accepted)
                         /\ fs[o.accepted].bytes[1] = DeviceAddress
                         /\ fs[o.accepted].bytes[2] = 17

\* The first two responses had a damaged CRC and the third read returned
\* the identification of the device.
C19_Witness ==
    /\ Returned({17})
    /\ call.out.reads = 3
    /\ call.out.data
    /\ call.out.accepted = 3

\* C20: a write response that passes the length, CRC, address and function
\* checks but echoes another start address or count than the request still
\* makes the write return success.
C20_EchoMismatchStillSuccess ==
    (/\ WriteReturned
     /\ call.out.class.kind = "Ok"
     /\ \/ Word(call.frames[1].bytes[3], call.frames[1].bytes[4]) # call.req.start
        \/ Word(call.frames[1].bytes[5], call.frames[1].bytes[6]) # EchoWord(call.req))
        => call.out.result

\* A function-0x10 write returned success on a response echoing another
\* count.
C20_Witness ==
    /\ WriteReturned
    /\ call.req.op = 16
    /\ call.out.class.kind = "Ok"
    /\ Word(call.frames[1].bytes[5], call.frames[1].bytes[6]) # Len(call.req.values)
    /\ call.out.result

\* ------------------------------------------------------------------------
\* Properties of the frame codec and the identity decoder
\* ------------------------------------------------------------------------

\* C25: every request frame put on the link carries an address byte in
\* 1..247, whatever address the caller supplied.
C25_AddressByteInRange ==
    codec.sent # NoFrame => codec.sent[1] \in 1..247

ParsedExample == codec.op = "parse" /\ codec.input.bytes = ExampleResponse

\* C26: the example identification payload decodes to software version
\* V00.07, hardware version V01.01 and I/O counts 0/32/0/0.
C26_ExampleDecodes ==
    ParsedExample =>
        /\ ~codec.out.error
        /\ codec.out.data.software = <<"V", "0", "0", ".", "0", "7">>
        /\ codec.out.data.hardware = <<"V", "0", "1", ".", "0", "1">>
        /\ codec.out.data.io_counts = <<"0", "/", "3", "2", "/", "0", "/", "0">>

\* C27: for a payload of any length the decode does not fail, the fields
\* lying fully inside the payload are decoded and the others are omitted.
C27_PartialDecode ==
    codec.op = "parse" =>
        /\ ~codec.out.error
        /\ \A f \in FieldNames :
             (f \in DOMAIN codec.out.data) <=> (FieldGuard[f] <= Len(codec.input.bytes))

ReadOfTestVector ==
    /\ codec.op = "read"
    /\ codec.input = [device_address |-> 1, function_code |-> 3, start_address |-> 0,
                      count |-> 10]

\* C28: the request 01 03 00 00 00 0A is followed on the link by the CRC
\* bytes C5 CD.
C28_TestVector ==
    ReadOfTestVector => codec.sent = <<1, 3, 0, 0, 0, 10, 197, 205>>

\* The request of the test vector has been built.
C28_Witness == ReadOfTestVector /\ Len(codec.sent) = 8

Recovered ==
    codec.out = [status |-> "Ok", address |-> codec.input.address,
                 function |-> codec.input.function, payload |-> codec.input.payload]

\* C29 (as stated): for every address, function code and payload, the
\* frame built by the encoder is accepted by the receiving side, which
\* recovers the address, the function code and the payload.
C29_RoundTrip ==
    codec.op = "round_trip" => Recovered

\* C29 (amended): the same for every non-empty payload.
C29_RoundTripNonEmpty ==
    (codec.op = "round_trip" /\ codec.input.payload # <<>>) => Recovered

\* An exception frame with a two-byte payload has made the round trip.
C29_Witness ==
    /\ codec.op = "round_trip"
    /\ codec.input.function = 131
    /\ codec.input.payload = <<165, 255>>
    /\ codec.out.status = "Ok"

\* The number of bytes that hold n bits.
BytesFor(n) == CHOOSE k \in 0..n : 8 * k >= n /\ 8 * (k - 1) < n

Bit(byte, k) == (byte \div 2^k) % 2

\* C30: for a non-empty list of n coil values the request carries the count
\* n, ceil(n/8) data bytes, bit (i mod 8) of byte floor(i/8) set exactly
\* when coil i is true, and padding bits 0.
C30_CoilsPackedLsbFirst ==
    (codec.op = "coils" /\ codec.input.values # <<>>) =>
        LET values == codec.input.values
            n == Len(values)
            frame == codec.sent
        IN  /\ Len(frame) = 7 + BytesFor(n) + 2
            /\ frame[2] = 15
            /\ frame[5] * 256 + frame[6] = n
            /\ frame[7] = BytesFor(n)
            /\ \A i \in 0..(8 * BytesFor(n) - 1) :
                 Bit(frame[8 + (i \div 8)], i % 8) = 1 <=> (i < n /\ values[i + 1])

\* Nine coils, the first, third and ninth on, have been packed into two
\* bytes.
C30_Witness ==
    /\ codec.op = "coils"
    /\ codec.input.values = <<TRUE, FALSE, TRUE, FALSE, FALSE, FALSE, FALSE, FALSE, TRUE>>
    /\ SubSeq(codec.sent, 5, 9) = <<0, 9, 2, 5, 1>>

\* ------------------------------------------------------------------------
\* Properties of the connection handle and the client
\* ------------------------------------------------------------------------

\* The connect was an auto-detection (no speed was given) and has returned.
AutoDetected == conn.pc = "connected" /\ conn.requested = 0

\* C38: auto-detection tries the standard speeds in order, and reports
\* success for a speed only if the device answered an identification
\* command (function 17) sent at that speed.
C38_SuccessOnlyIfIdentified ==
    AutoDetected =>
      /\ \A i \in 1..Len(conn.tried) : conn.tried[i] = STANDARD_BAUDRATES[i]
      /\ conn.success =>
           /\ conn.baudrate = conn.device_speed
           /\ \E k \in 1..Len(conn.probes) : conn.probes[k] = conn.baudrate

\* C39: after disconnect has returned, whether or not close() raised, the
\* handle is None, a repeated disconnect closes nothing, and every client
\* operation returns its failure value without writing to the link.
C39_DisconnectedClientFails ==
    conn.disconnected =>
      /\ conn.handle = "None"
      /\ conn.idleCloses = 0
      /\ conn.last.after => (conn.last.result = Failure(conn.last.op) /\ ~conn.last.wrote)

\* An open connection was closed with close() raising, disconnect was
\* called again, and an operation was then attempted.
C39_Witness ==
    /\ conn.disconnected
    /\ conn.closeRaised
    /\ conn.disconnects = 2
    /\ conn.closes = 1
    /\ conn.last.after
    /\ conn.last.op = "write_holding_registers"
    /\ conn.last.result = "False"

====
